---- MODULE Spec2Model ----
(***************************************************************************)
(* State-machine model of the BAAS licensing worker (apps/baas-api/        *)
(* worker.js over the D1 schema of db/schema.sql).                         *)
(*                                                                         *)
(* The database tables are the state.  Every request handler is split at   *)
(* its awaited database statements: one action per statement, because the  *)
(* Workers runtime interleaves concurrent requests exactly at those        *)
(* awaits.  A single-statement handler is one action.  The code that runs  *)
(* between two awaits runs with the statement that precedes it, so a clock *)
(* value the handler reads there is the clock of that step.                *)
(***************************************************************************)
EXTENDS Integers, Sequences, FiniteSets, Bags, TLC

(***************************************************************************)
(* Bounds of the model.                                                    *)
(***************************************************************************)
NumProcs == 2          \* requests that may be in flight at the same time
MaxTicks == 1          \* clock advances in one behaviour
MaxLicenses == 2       \* rows of table licenses
MaxSessions == 2       \* rows of table activation_sessions
MaxUsage == 3          \* rows of table usage

(***************************************************************************)
(* Program constants.                                                      *)
(***************************************************************************)
MsPerDay == 86400000
MsPerMinute == 60000
SecondsPerDay == 86400
CertLifetimeDays == 7

(***************************************************************************)
(* Input domains.                                                          *)
(***************************************************************************)
Procs == 1..NumProcs
Projects == {"p1", "p2"}
Buckets == {"general", "ai"}
Codes == {"WEBINAR"}
TickMs == 3 * (MsPerDay \div 2)    \* the clock advances a day and a half per tick

\* An optional number (a JSON field that may be missing, a nullable column):
\* Undef is JavaScript's undefined / SQL NULL, Some(n) the number n.
Undef == <<>>
Some(n) == <<n>>
Val(x) == x[1]

\* JavaScript truthiness of an optional number: undefined and 0 are falsy.
Truthy(x) == x # Undef /\ x # Some(0)

VARIABLES
    licenses,      \* table licenses: sequence indexed by jti
    sessions,      \* table activation_sessions: sequence indexed by activation_id
    activations,   \* table activations: function activation_id -> row
    usage,         \* table usage: bag of rows (the autoincrement id is not kept)
    usersSeen,     \* table users_seen: set of <<jti, device_id, user_hash>>
    coupons,       \* table coupon_codes: function code -> row
    agencies,      \* table agencies: function agency_id -> row
    now,           \* Date.now(), in milliseconds
    req,           \* per request in flight: handler, position, locals
    last,          \* the request answered last, with its response
    redeemed,      \* history: per coupon code, redemptions answered 200 with a token
    sdk            \* the SDK in one page: config, state, localStorage, timers, calls

vars == <<licenses, sessions, activations, usage, usersSeen, coupons, agencies, now, req, last,
          redeemed, sdk>>

tables == <<licenses, sessions, activations, usage, usersSeen, coupons, agencies>>

Idle == [op |-> "none", pc |-> "idle"]

\* The calls of BAAS.license.ensure in a behaviour; call e runs in slot e.
MaxEnsure == 3
Calls == 1..MaxEnsure

\* The values of config.projectId: null at first, then the aud of a verified
\* token or undefined; localStorage's keys are `baas:${config.projectId}:${key}`.
ProjectIds == Projects \cup {"null", "undefined"}

\* A slot whose call has not been made.
NoCall == [pc |-> "none"]

\* The SDK when the page has loaded: let config, let state, an empty
\* localStorage, no interval timer (minted counts the ids setInterval gave),
\* no request on its way to the worker and no call awaiting a response.
SdkInit ==
    [projectId |-> "null", license |-> Undef, activation |-> Undef, heartbeatTimer |-> Undef,
     timers |-> {}, minted |-> 0, status |-> Undef, outbox |-> {}, waiting |-> 0,
     beats |-> {},
     storage |-> [k \in ProjectIds |-> [license |-> Undef, activation |-> Undef]],
     calls |-> [e \in Calls |-> NoCall]]

Init ==
    /\ licenses = <<>>
    /\ sessions = <<>>
    /\ activations = <<>>
    /\ usage = EmptyBag
    /\ usersSeen = {}
    /\ coupons = <<>>
    /\ agencies = <<>>
    /\ now = 0
    /\ req = [p \in Procs |-> Idle]
    /\ last = Idle
    /\ redeemed = [c \in Codes |-> 0]
    /\ sdk = SdkInit

\* The requests in flight at one of the positions pcs.
At(pcs) == {p \in Procs : req[p].pc \in pcs}

\* A request starts in the first free slot (the slots are interchangeable).
CanStart(p) == req[p].pc = "idle" /\ \A q \in Procs : q < p => req[q].pc # "idle"

\* Request p goes on, with locals r.
Continue(p, r) == req' = [req EXCEPT ![p] = r] /\ UNCHANGED last

\* Request p is answered: r is the request with its response.
Answer(p, r) == req' = [req EXCEPT ![p] = Idle] /\ last' = [r EXCEPT !.pc = "done"]

\* An admin request that is one statement is answered in the step it runs.
AnswerAdmin(r) == last' = r /\ UNCHANGED req

\* License rows the requests in flight are still going to insert.
RECURSIVE PendingLicenses(_)
PendingLicenses(S) ==
    IF S = {} THEN 0
    ELSE LET p == CHOOSE q \in S : TRUE
         IN  (IF req[p].pc = "redeem_insert" THEN 1
              ELSE IF req[p].pc = "issue_loop" THEN req[p].seats - req[p].i
              ELSE 0) + PendingLicenses(S \ {p})

\* The tables have room for what a new request may insert.
RoomForLicenses(n) == Len(licenses) + PendingLicenses(Procs) + n <= MaxLicenses
RoomForSession == Len(sessions) + Cardinality(At({"start_insert"})) < MaxSessions
RoomForUsage == BagCardinality(usage) + Cardinality(At({"meter_sum", "meter_insert"})) < MaxUsage

\* Time passes between any two steps.
Tick ==
    /\ now < MaxTicks * TickMs
    /\ now' = now + TickMs
    /\ UNCHANGED <<tables, req, last, redeemed, sdk>>

(***************************************************************************)
(* Quotas: the JSON object {daily, byCategory: {bucket: {daily}}}.         *)
(***************************************************************************)
NoCategories == [b \in Buckets |-> Undef]
Quotas(daily, byCategory) == [daily |-> daily, byCategory |-> byCategory]
NoQuota == Quotas(Undef, NoCategories)

(***************************************************************************)
(* GET /v1/revocations                                                     *)
(***************************************************************************)
\* A faulty variant of RevokedIds that forgets the project, to test the
\* properties against.
RevokedIdsAnyProject(projectId) ==
    {jti \in DOMAIN licenses : licenses[jti].revoked}

\* SELECT jti FROM licenses WHERE project_id = ?1 AND revoked = 1
RevokedIds(projectId) ==
    {jti \in DOMAIN licenses :
        licenses[jti].project_id = projectId /\ licenses[jti].revoked}

\* The handler refuses a request without projectId, else answers the ids the
\* SELECT returned and the time.
Revocations(p, projectId) ==
    /\ CanStart(p)
    /\ LET r == [op |-> "revocations", pc |-> "done", status |-> 0, projectId |-> projectId]
       IN  IF projectId = ""
           THEN Answer(p, [r EXCEPT !.status = 400])
           ELSE Answer(p, [r EXCEPT !.status = 200]
                          @@ [revoked |-> RevokedIds(projectId), updatedAt |-> now])
    /\ UNCHANGED <<tables, now, sdk, redeemed>>

(***************************************************************************)
(* POST /admin/coupons/create                                              *)
(***************************************************************************)
CouponsCreate(code, projectId, durationDays, quotas, maxUses, expiresAt) ==
    /\ code # "" /\ projectId # "" /\ durationDays # 0 /\ maxUses # 0
    /\ code \notin DOMAIN coupons           \* code is the primary key
    /\ coupons' = [c \in DOMAIN coupons \cup {code} |->
                     IF c = code
                     THEN [project_id |-> projectId,
                           plan |-> [durationDays |-> durationDays, quotas |-> quotas],
                           max_uses |-> maxUses,
                           current_uses |-> 0,
                           expires_at |-> IF Truthy(expiresAt) THEN expiresAt ELSE Undef]
                     ELSE coupons[c]]
    /\ AnswerAdmin([op |-> "coupons_create", pc |-> "done", status |-> 201, code |-> code])
    /\ UNCHANGED <<licenses, sessions, activations, usage, usersSeen, agencies, now, sdk, redeemed>>

(***************************************************************************)
(* POST /v1/coupons/redeem                                                 *)
(***************************************************************************)
\* A faulty variant of RedeemExhausted that lets one more use through, to test
\* the properties against.
RedeemExhaustedOver(coupon) == coupon.current_uses > coupon.max_uses

\* The coupon has no use left, as the handler sees it in the row it read.
RedeemExhausted(coupon) == coupon.current_uses >= coupon.max_uses

RedeemExpired(coupon, t) == Truthy(coupon.expires_at) /\ Val(coupon.expires_at) * 1000 < t

\* SELECT the coupon and run the checks on the row read.  The handler reads
\* the clock for the new license's exp as soon as the checks have passed.
\* (at, couponAtStart and wrote are history: the clock and the coupon's row, if
\* any, at the lookup, and the statements the request has written.)
RedeemRead(p, couponCode, projectId) ==
    /\ CanStart(p)
    /\ RoomForLicenses(1)
    /\ LET found == couponCode \in DOMAIN coupons /\ coupons[couponCode].project_id = projectId
           r == [op |-> "redeem", pc |-> "redeem_insert", status |-> 0, error |-> "",
                 couponCode |-> couponCode, projectId |-> projectId, at |-> now,
                 couponAtStart |-> IF found THEN Some(coupons[couponCode]) ELSE Undef,
                 wrote |-> 0]
           Fail(status, error) == Answer(p, [r EXCEPT !.status = status, !.error = error])
       IN  IF couponCode = "" \/ projectId = "" THEN Fail(400, "ValidationError")
           ELSE IF ~found THEN Fail(404, "NotFound")
           ELSE IF RedeemExhausted(coupons[couponCode]) THEN Fail(403, "Exhausted")
           ELSE IF RedeemExpired(coupons[couponCode], now) THEN Fail(403, "Expired")
           ELSE Continue(p, r @@ [plan |-> coupons[couponCode].plan])
    /\ UNCHANGED <<tables, now, sdk, redeemed>>

\* INSERT INTO licenses, with a fresh jti.
RedeemInsert(p) ==
    /\ req[p].pc = "redeem_insert"
    /\ LET r == req[p]
           jti == Len(licenses) + 1
           exp == (r.at \div 1000) + r.plan.durationDays * SecondsPerDay
       IN  /\ licenses' = Append(licenses,
                                 [project_id |-> r.projectId, type |-> "individual",
                                  agency_id |-> "", seat_index |-> Undef,
                                  quotas |-> r.plan.quotas, exp |-> exp, revoked |-> FALSE])
           /\ Continue(p, [r EXCEPT !.pc = "redeem_update", !.wrote = 1]
                          @@ [jti |-> jti, exp |-> exp])
    /\ UNCHANGED <<sessions, activations, usage, usersSeen, coupons, agencies, now, sdk, redeemed>>

\* A faulty variant of RedeemIncrement that writes the count back unchanged,
\* to test the properties against.
RedeemIncrementLost(code) == coupons

\* The write of the use count: UPDATE ... SET current_uses = current_uses + 1
\* WHERE code = ?1.
RedeemIncrement(code) ==
    [c \in DOMAIN coupons |->
        IF c = code THEN [coupons[c] EXCEPT !.current_uses = @ + 1] ELSE coupons[c]]

\* UPDATE coupon_codes, then sign the license token and answer 200.
RedeemUpdate(p) ==
    /\ req[p].pc = "redeem_update"
    /\ LET r == req[p]
       IN  /\ coupons' = RedeemIncrement(r.couponCode)
           /\ Answer(p, [r EXCEPT !.status = 200, !.wrote = 2]
                        @@ [token |-> [aud |-> r.projectId, jti |-> r.jti,
                                       type |-> "individual", exp |-> r.exp]])
           /\ redeemed' = [redeemed EXCEPT ![r.couponCode] = @ + 1]
    /\ UNCHANGED <<licenses, sessions, activations, usage, usersSeen, agencies, now, sdk>>

(***************************************************************************)
(* POST /admin/agencies/create                                             *)
(***************************************************************************)
AgenciesCreate(agencyId, seatQuota) ==
    /\ agencyId \notin DOMAIN agencies      \* agency_id is the primary key
    /\ agencies' = [a \in DOMAIN agencies \cup {agencyId} |->
                      IF a = agencyId THEN [seat_quota |-> seatQuota] ELSE agencies[a]]
    /\ AnswerAdmin([op |-> "agencies_create", pc |-> "done", status |-> 201,
                    agencyId |-> agencyId])
    /\ UNCHANGED <<licenses, sessions, activations, usage, usersSeen, coupons, now, sdk, redeemed>>

(***************************************************************************)
(* POST /admin/licenses/issue                                              *)
(***************************************************************************)
\* A faulty variant of IssueToken that names the first license in every token,
\* to test the properties against.
IssueTokenFirst(r, jti, i, exp) ==
    [aud |-> r.projectId, jti |-> 1, type |-> r.type, agency_id |-> r.agencyId,
     seat_index |-> IF r.type = "seat" THEN Some(i) ELSE Undef, exp |-> exp]

\* The license token of seat i (1-based), as signJwt's payload.
IssueToken(r, jti, i, exp) ==
    [aud |-> r.projectId, jti |-> jti, type |-> r.type, agency_id |-> r.agencyId,
     seat_index |-> IF r.type = "seat" THEN Some(i) ELSE Undef, exp |-> exp]

\* One iteration of the loop: INSERT INTO licenses for seat i, then sign its
\* token.  exp is computed from the clock as read before the insert was sent.
\* The row violates a constraint of the schema when the type is not one of the
\* two allowed or the agency is not a row of agencies.
IssueSeat(p, r, i) ==
    LET jti == Len(licenses) + 1
        exp == (r.at \div 1000) + r.durationDays * SecondsPerDay
        ok  == r.type \in {"seat", "individual"}
               /\ (r.agencyId = "" \/ r.agencyId \in DOMAIN agencies)
        next == [r EXCEPT !.i = i, !.at = now,
                          !.tokens = Append(r.tokens, IssueToken(r, jti, i, exp))]
    IN  IF ~ok
        THEN /\ Answer(p, [r EXCEPT !.status = 500])
             /\ UNCHANGED licenses
        ELSE /\ licenses' = Append(licenses,
                                   [project_id |-> r.projectId, type |-> r.type,
                                    agency_id |-> r.agencyId,
                                    seat_index |-> IF r.type = "seat" THEN Some(i) ELSE Undef,
                                    quotas |-> r.quotas, exp |-> exp, revoked |-> FALSE])
             /\ IF i >= r.seats THEN Answer(p, [next EXCEPT !.status = 201])
                                ELSE Continue(p, next)

\* The request arrives; with seats < 1 the loop body never runs.
IssueBegin(p, projectId, type, agencyId, seats, durationDays, quotas) ==
    /\ CanStart(p)
    /\ RoomForLicenses(IF seats < 1 THEN 0 ELSE seats)
    /\ LET r == [op |-> "issue", pc |-> "issue_loop", status |-> 0, projectId |-> projectId,
                 type |-> type, agencyId |-> agencyId, seats |-> seats,
                 durationDays |-> durationDays, quotas |-> quotas, i |-> 0, tokens |-> <<>>,
                 at |-> now]
       IN  IF seats < 1
           THEN /\ Answer(p, [r EXCEPT !.status = 201])
                /\ UNCHANGED licenses
           ELSE IssueSeat(p, r, 1)
    /\ UNCHANGED <<sessions, activations, usage, usersSeen, coupons, agencies, now, sdk, redeemed>>

IssueLoop(p) ==
    /\ req[p].pc = "issue_loop"
    /\ IssueSeat(p, req[p], req[p].i + 1)
    /\ UNCHANGED <<sessions, activations, usage, usersSeen, coupons, agencies, now, sdk, redeemed>>

(***************************************************************************)
(* POST /admin/licenses/revoke                                             *)
(***************************************************************************)
\* A faulty variant of RevokeLicenses that flips the flag, so that a second
\* Revoke restores the license, to test the properties against.
RevokeLicensesToggle(jti) ==
    [j \in DOMAIN licenses |-> IF j = jti THEN [licenses[j] EXCEPT !.revoked = ~@]
                                           ELSE licenses[j]]

\* The two statements of the batch.  D1 runs a batch as one transaction.
RevokeLicenses(jti) ==
    [j \in DOMAIN licenses |-> IF j = jti THEN [licenses[j] EXCEPT !.revoked = TRUE]
                                           ELSE licenses[j]]

\* A faulty variant of the cascade, to test the properties against: the
\* second statement is lost.
RevokeActivationsLost(jti) == activations

RevokeActivations(jti) ==
    [a \in DOMAIN activations |->
        IF activations[a].jti = jti THEN [activations[a] EXCEPT !.revoked = TRUE]
                                    ELSE activations[a]]

Revoke(jti) ==
    /\ licenses' = RevokeLicenses(jti)
    /\ activations' = RevokeActivations(jti)
    /\ AnswerAdmin([op |-> "revoke", pc |-> "done", status |-> 200, jti |-> jti])
    /\ UNCHANGED <<sessions, usage, usersSeen, coupons, agencies, now, sdk, redeemed>>

(***************************************************************************)
(* POST /v1/usage/meter                                                    *)
(***************************************************************************)
DayKey(ms) == ms \div MsPerDay
MinuteKey(ms) == ms \div MsPerMinute

\* `${now.getUTCFullYear()}${String(now.getUTCMonth() + 1).padStart(2, '0')}`,
\* as the number YYYYMM: the civil date of a day count since 1970-01-01.
MonthKey(ms) ==
    LET z   == (ms \div MsPerDay) + 719468
        era == z \div 146097
        doe == z - era * 146097
        yoe == (doe - doe \div 1460 + doe \div 36524 - doe \div 146096) \div 365
        doy == doe - (365 * yoe + yoe \div 4 - yoe \div 100)
        mp  == (5 * doy + 2) \div 153
        m   == IF mp < 10 THEN mp + 3 ELSE mp - 9
        y   == yoe + era * 400 + (IF m <= 2 THEN 1 ELSE 0)
    IN  y * 100 + m

\* A faulty variant of the license check, to test the properties against: the
\* query does not filter on revoked.
LicenseValidAnyRevoked(jti, t) ==
    /\ jti \in DOMAIN licenses
    /\ ~(licenses[jti].exp * 1000 < t)

\* SELECT * FROM licenses WHERE jti = ?1 AND revoked = 0, then the expiry test:
\* the row passes when it exists, is not revoked and exp*1000 >= Date.now().
LicenseValid(jti, t) ==
    /\ jti \in DOMAIN licenses
    /\ ~licenses[jti].revoked
    /\ ~(licenses[jti].exp * 1000 < t)

\* bucketQuota.daily || quotas.daily
ResolveLimit(quotas, bucket) ==
    IF Truthy(quotas.byCategory[bucket]) THEN quotas.byCategory[bucket] ELSE quotas.daily

\* SELECT SUM(cost) FROM usage WHERE jti = ?1 AND day_key = ?2 AND bucket = ?3
RECURSIVE SumRows(_, _)
SumRows(rows, S) ==
    IF S = {} THEN 0
    ELSE LET row == CHOOSE x \in S : TRUE
         IN  rows[row] * row.cost + SumRows(rows, S \ {row})

SumCost(rows, jti, dayKey, bucket) ==
    SumRows(rows, {row \in BagToSet(rows) :
                     row.jti = jti /\ row.day_key = dayKey /\ row.bucket = bucket})

\* A faulty variant of the admission test, to test the properties against:
\* the comparison is off by one.
OverLimitAtLimit(todaysUsage, cost, dailyLimit) == todaysUsage + cost >= dailyLimit

\* todaysUsage + cost > dailyLimit
OverLimit(todaysUsage, cost, dailyLimit) == todaysUsage + cost > dailyLimit

\* Load the license; refuse with 403 when it is absent, revoked or expired.
\* Otherwise resolve the limit; without one the handler goes straight to the
\* insert, with the time it reads now.  (rows0, wrote, at and rowAtStart are
\* history: the size of table usage when the request arrived, the rows the
\* request inserted, the clock at the license check and the license's row, if
\* any, as the table held it then.)
MeterRead(p, jti, deviceId, bucket, cost) ==
    /\ CanStart(p)
    /\ RoomForUsage
    /\ LET r == [op |-> "meter", pc |-> "meter_sum", status |-> 0, jti |-> jti,
                 deviceId |-> deviceId, bucket |-> bucket,
                 cost |-> IF cost = Undef THEN 1 ELSE Val(cost),
                 rows0 |-> BagCardinality(usage), wrote |-> 0, at |-> now,
                 rowAtStart |-> IF jti \in DOMAIN licenses THEN Some(licenses[jti])
                                                           ELSE Undef]
       IN  IF ~LicenseValid(jti, now)
           THEN Answer(p, [r EXCEPT !.status = 403])
           ELSE LET dailyLimit == ResolveLimit(licenses[jti].quotas, bucket)
                IN  IF Truthy(dailyLimit)
                    THEN Continue(p, r @@ [dailyLimit |-> Val(dailyLimit), today |-> now])
                    ELSE Continue(p, [r EXCEPT !.pc = "meter_insert"] @@ [insertAt |-> now])
    /\ UNCHANGED <<tables, now, sdk, redeemed>>

\* A faulty variant of Remaining with the operands swapped, to test the
\* properties against.
RemainingSwapped(dailyLimit, todaysUsage) == todaysUsage - dailyLimit

\* remaining: dailyLimit - todaysUsage
Remaining(dailyLimit, todaysUsage) == dailyLimit - todaysUsage

\* Sum today's usage of the bucket; deny with 429 when the call would pass the
\* limit, else go on to the insert with the time read now.
MeterSum(p) ==
    /\ req[p].pc = "meter_sum"
    /\ LET r == req[p]
           todaysUsage == SumCost(usage, r.jti, DayKey(r.today), r.bucket)
       IN  IF OverLimit(todaysUsage, r.cost, r.dailyLimit)
           THEN Answer(p, [r EXCEPT !.status = 429]
                          @@ [allowed |-> FALSE, remaining |-> Remaining(r.dailyLimit, todaysUsage)])
           ELSE Continue(p, [r EXCEPT !.pc = "meter_insert"] @@ [insertAt |-> now])
    /\ UNCHANGED <<tables, now, sdk, redeemed>>

\* A faulty variant of InsertUsage that overwrites the table with the new row,
\* to test the properties against.
InsertUsageOver(rows, row) == SetToBag({row})

\* INSERT INTO usage (...) VALUES (...): one more row, the others untouched.
InsertUsage(rows, row) == rows (+) SetToBag({row})

\* INSERT INTO usage, then answer 200.  (revokedAtInsert is history: whether
\* the license was revoked when the row was written.)
MeterInsert(p) ==
    /\ req[p].pc = "meter_insert"
    /\ LET r == req[p]
       IN  /\ usage' = InsertUsage(usage,
                              [jti |-> r.jti, device_id |-> r.deviceId, bucket |-> r.bucket,
                               cost |-> r.cost, day_key |-> DayKey(r.insertAt),
                               minute_key |-> MinuteKey(r.insertAt),
                               month_key |-> MonthKey(r.insertAt)])
           /\ Answer(p, [r EXCEPT !.status = 200, !.wrote = 1]
                        @@ [allowed |-> TRUE, revokedAtInsert |-> licenses[r.jti].revoked])
    /\ UNCHANGED <<licenses, sessions, activations, usersSeen, coupons, agencies, now, sdk, redeemed>>

(***************************************************************************)
(* POST /v1/activate/start                                                 *)
(***************************************************************************)
\* A faulty variant of TokenExpired that never finds a token expired, to test
\* the properties against.
TokenExpiredNever(exp, t) == FALSE

\* Date.now() / 1000 > exp
TokenExpired(exp, t) == t > exp * 1000

\* The license token is only decoded: the handler reads aud, exp and jti from
\* its payload.  (at, rowAtStart and wrote are history: the clock and the
\* license's row, if any, at the license check, and the sessions the request
\* inserted.)
StartRead(p, projectId, token) ==
    /\ CanStart(p)
    /\ RoomForSession
    /\ LET r == [op |-> "start", pc |-> "start_insert", status |-> 0,
                 projectId |-> projectId, token |-> token, wrote |-> 0, at |-> now,
                 rowAtStart |-> IF token.jti \in DOMAIN licenses
                                THEN Some(licenses[token.jti]) ELSE Undef]
       IN  IF token.aud # projectId THEN Answer(p, [r EXCEPT !.status = 400])
           ELSE IF TokenExpired(token.exp, now) THEN Answer(p, [r EXCEPT !.status = 400])
           ELSE IF ~(token.jti \in DOMAIN licenses /\ ~licenses[token.jti].revoked)
           THEN Answer(p, [r EXCEPT !.status = 404])
           ELSE Continue(p, r)
    /\ UNCHANGED <<tables, now, sdk, redeemed>>

\* A faulty variant of SessionRow that stores another challenge than the one
\* given, to test the properties against.
SessionRowOtherChallenge(jti, challenge, t) ==
    [jti |-> jti, challenge |-> challenge + 1, created_at |-> t \div 1000]

\* The row of activation_sessions: VALUES (activationId, jti, challenge, ...);
\* created_at is the column's default.
SessionRow(jti, challenge, t) ==
    [jti |-> jti, challenge |-> challenge, created_at |-> t \div 1000]

\* INSERT INTO activation_sessions with a fresh activation id and challenge.
StartInsert(p) ==
    /\ req[p].pc = "start_insert"
    /\ LET activationId == Len(sessions) + 1
       IN  /\ sessions' = Append(sessions, SessionRow(req[p].token.jti, activationId, now))
           /\ Answer(p, [req[p] EXCEPT !.status = 200, !.wrote = 1]
                        @@ [activationId |-> activationId, challenge |-> activationId])
    /\ UNCHANGED <<licenses, activations, usage, usersSeen, coupons, agencies, now, sdk, redeemed>>

(***************************************************************************)
(* POST /v1/activate/finish                                                *)
(***************************************************************************)
\* A faulty variant of SelectSession that falls back on the first row of the
\* table when no row has the id, to test the properties against.
SelectSessionAnyRow(activationId) ==
    IF activationId \in DOMAIN sessions THEN Some(sessions[activationId])
    ELSE IF Len(sessions) > 0 THEN Some(sessions[1])
    ELSE Undef

\* SELECT * FROM activation_sessions WHERE activation_id = ?1 (.first(): the
\* row, or null)
SelectSession(activationId) ==
    IF activationId \in DOMAIN sessions THEN Some(sessions[activationId]) ELSE Undef

SessionFound(activationId) == SelectSession(activationId) # Undef

\* (sessionAtStart and at are history: whether table activation_sessions held
\* a row of the id when the handler looked, and the clock then.)
FinishRead(p, activationId, credentialId) ==
    /\ CanStart(p)
    /\ LET r == [op |-> "finish", pc |-> "finish_insert", status |-> 0,
                 activationId |-> activationId, credentialId |-> credentialId, wrote |-> 0,
                 sessionAtStart |-> activationId \in DOMAIN sessions]
           session == SelectSession(activationId)
       IN  IF ~SessionFound(activationId)
           THEN Answer(p, [r EXCEPT !.status = 404])
           ELSE Continue(p, r @@ [jti |-> Val(session).jti, at |-> now])
    /\ UNCHANGED <<tables, now, sdk, redeemed>>

\* The constraints of table activations on a new row: activation_id is the
\* primary key and (jti, device_id) is unique.
ActivationInsertable(activationId, jti, deviceId) ==
    /\ activationId \notin DOMAIN activations
    /\ \A a \in DOMAIN activations :
          ~(activations[a].jti = jti /\ activations[a].device_id = deviceId)

\* Mint a device id and INSERT INTO activations.  A request without a
\* credential, or a row the table refuses, ends the handler with an exception.
\* (licenseRevokedAtInsert is history: whether the license was revoked when
\* the row was written.)
FinishInsert(p) ==
    /\ req[p].pc = "finish_insert"
    /\ LET r == req[p]
           deviceId == Cardinality(DOMAIN activations) + 1
       IN  IF r.credentialId = "" \/ ~ActivationInsertable(r.activationId, r.jti, deviceId)
           THEN /\ Answer(p, [r EXCEPT !.status = 500])
                /\ UNCHANGED activations
           ELSE /\ activations' =
                      [a \in DOMAIN activations \cup {r.activationId} |->
                         IF a = r.activationId
                         THEN [jti |-> r.jti, device_id |-> deviceId,
                               credential_id |-> r.credentialId,
                               last_seen |-> r.at \div 1000, revoked |-> FALSE,
                               licenseRevokedAtInsert |-> licenses[r.jti].revoked]
                         ELSE activations[a]]
                /\ Continue(p, [r EXCEPT !.pc = "finish_project", !.wrote = 1]
                               @@ [deviceId |-> deviceId])
    /\ UNCHANGED <<licenses, sessions, usage, usersSeen, coupons, agencies, now, sdk, redeemed>>

\* A faulty variant of CertExpiry that adds the lifetime to the milliseconds,
\* to test the properties against.
CertExpiryOfMs(t) == t + CertLifetimeDays * SecondsPerDay

\* exp: Math.floor(Date.now() / 1000) + (7 * 24 * 60 * 60)
CertExpiry(t) == (t \div 1000) + CertLifetimeDays * SecondsPerDay

\* SELECT project_id FROM licenses, sign the activation certificate, answer 200.
FinishProject(p) ==
    /\ req[p].pc = "finish_project"
    /\ LET r == req[p]
       IN  Answer(p, [r EXCEPT !.status = 200]
                     @@ [activationCert |->
                           [typ |-> "activation", projectId |-> licenses[r.jti].project_id,
                            jti |-> r.jti, deviceId |-> r.deviceId, level |-> "webauthn",
                            exp |-> CertExpiry(now)]])
    /\ UNCHANGED <<tables, now, sdk, redeemed>>

(***************************************************************************)
(* POST /v1/heartbeat                                                      *)
(***************************************************************************)
\* A faulty variant of HeartbeatTouch that updates every activation of the
\* license, whatever its device, to test the properties against.
HeartbeatTouchAnyDevice(jti, deviceId, t) ==
    [a \in DOMAIN activations |->
        IF activations[a].jti = jti
        THEN [activations[a] EXCEPT !.last_seen = t \div 1000]
        ELSE activations[a]]

\* UPDATE activations SET last_seen = ?1 WHERE jti = ?2 AND device_id = ?3
HeartbeatTouch(jti, deviceId, t) ==
    [a \in DOMAIN activations |->
        IF activations[a].jti = jti /\ activations[a].device_id = deviceId
        THEN [activations[a] EXCEPT !.last_seen = t \div 1000]
        ELSE activations[a]]

\* The certificate is only decoded: the handler reads jti and deviceId from it,
\* reads the clock and sends the UPDATE.
\* (revokedAtStart and activationAtStart are history: whether the license was
\* revoked on arrival, and whether the certificate's activation existed then.)
HeartbeatRead(p, jti, deviceId, userIdHash) ==
    /\ CanStart(p)
    /\ Continue(p, [op |-> "heartbeat", pc |-> "heartbeat_update", status |-> 0, jti |-> jti,
                    deviceId |-> deviceId, userIdHash |-> userIdHash, at |-> now,
                    revokedAtStart |-> (jti \in DOMAIN licenses /\ licenses[jti].revoked),
                    activationAtStart |-> (\E a \in DOMAIN activations :
                                              /\ activations[a].jti = jti
                                              /\ activations[a].device_id = deviceId)])
    /\ UNCHANGED <<tables, now, sdk, redeemed>>

\* The UPDATE runs, with the time the handler read when it sent the statement.
HeartbeatUpdate(p) ==
    /\ req[p].pc = "heartbeat_update"
    /\ LET r == req[p]
       IN  /\ activations' = HeartbeatTouch(r.jti, r.deviceId, r.at)
           /\ IF r.userIdHash # ""
              THEN Continue(p, [r EXCEPT !.pc = "heartbeat_seen"])
              ELSE Answer(p, [r EXCEPT !.status = 200])
    /\ UNCHANGED <<licenses, sessions, usage, usersSeen, coupons, agencies, now, sdk, redeemed>>

\* INSERT OR IGNORE INTO users_seen
HeartbeatSeen(p) ==
    /\ req[p].pc = "heartbeat_seen"
    /\ usersSeen' = usersSeen \cup {<<req[p].jti, req[p].deviceId, req[p].userIdHash>>}
    /\ Answer(p, [req[p] EXCEPT !.status = 200])
    /\ UNCHANGED <<licenses, sessions, activations, usage, coupons, agencies, now, sdk, redeemed>>

(***************************************************************************)
(* The values requests carry.                                              *)
(***************************************************************************)
\* The jti values a token or certificate may name: issued or not.
Jtis == 1..2
\* The activation ids a Finish may name: of a session or not.
ActivationIds == 1..2

LimitOne == Quotas(Some(1), NoCategories)
LimitTwoAiOne == Quotas(Some(2), [b \in Buckets |-> IF b = "ai" THEN Some(1) ELSE Undef])

\* The payload of a license token a client may present: the code reads aud,
\* jti and exp from it without verifying the signature.
LicenseTokens == [aud : {"p1"}, jti : Jtis, exp : {SecondsPerDay}]

\* No request is in flight.
AllQuiet == \A q \in Procs : req[q].pc = "idle"

(***************************************************************************)
(* Coupon redemption under concurrent requests.                            *)
(***************************************************************************)
NextCoupon ==
    \/ Tick
    \/ \E projectId \in Projects, maxUses \in {1, 2}, expiresAt \in {Undef, Some(SecondsPerDay \div 2)} :
          CouponsCreate("WEBINAR", projectId, 1, NoQuota, maxUses, expiresAt)
    \/ \E p \in Procs, couponCode \in Codes \cup {""}, projectId \in Projects :
          RedeemRead(p, couponCode, projectId)
    \/ \E p \in Procs : RedeemInsert(p)
    \/ \E p \in Procs : RedeemUpdate(p)

SpecCoupon == Init /\ [][NextCoupon]_vars

(***************************************************************************)
(* Metering under concurrent requests, with issue and revoke: licenses     *)
(* with a daily limit of 1, calls of the default cost on one bucket, for   *)
(* an issued or an unknown license; the first license may be revoked.      *)
(***************************************************************************)
NextMeter ==
    \/ Tick
    \/ \E p \in Procs : IssueBegin(p, "p1", "individual", "", 1, 1, LimitOne)
    \/ \E p \in Procs, jti \in Jtis : MeterRead(p, jti, 1, "general", Undef)
    \/ \E p \in Procs : MeterSum(p)
    \/ \E p \in Procs : MeterInsert(p)
    \/ Revoke(1)

SpecMeter == Init /\ [][NextMeter]_vars

(***************************************************************************)
(* Metering one request at a time (a request starts only when none is in   *)
(* flight): a global limit of 2 and a limit of 1 on bucket "ai", costs 1   *)
(* and 2.                                                                  *)
(***************************************************************************)
NextMeterSeq ==
    \/ Tick
    \/ \E p \in Procs : AllQuiet /\ IssueBegin(p, "p1", "individual", "", 1, 1, LimitTwoAiOne)
    \/ \E p \in Procs, jti \in Jtis, bucket \in Buckets, cost \in {Undef, Some(2)} :
          AllQuiet /\ MeterRead(p, jti, 1, bucket, cost)
    \/ \E p \in Procs : MeterSum(p)
    \/ \E p \in Procs : MeterInsert(p)
    \/ \E jti \in Jtis : AllQuiet /\ Revoke(jti)

SpecMeterSeq == Init /\ [][NextMeterSeq]_vars

(***************************************************************************)
(* Device binding under concurrent requests: issue, start, finish and      *)
(* revoke.                                                                 *)
(***************************************************************************)
NextBind ==
    \/ \E p \in Procs : IssueBegin(p, "p1", "individual", "", 1, 1, NoQuota)
    \/ \E p \in Procs, token \in LicenseTokens : StartRead(p, "p1", token)
    \/ \E p \in Procs : StartInsert(p)
    \/ \E p \in Procs, activationId \in ActivationIds : FinishRead(p, activationId, "cred")
    \/ \E p \in Procs : FinishInsert(p)
    \/ \E p \in Procs : FinishProject(p)
    \/ \E jti \in Jtis : Revoke(jti)

SpecBind == Init /\ [][NextBind]_vars

(***************************************************************************)
(* Heartbeats of an activated device, one request at a time, with revoke   *)
(* and the clock: tokens and certificates of license 1, device 1.          *)
(***************************************************************************)
NextBeat ==
    \/ Tick
    \/ \E p \in Procs : AllQuiet /\ IssueBegin(p, "p1", "individual", "", 1, 1, NoQuota)
    \/ \E p \in Procs :
          AllQuiet /\ StartRead(p, "p1", [aud |-> "p1", jti |-> 1, exp |-> SecondsPerDay])
    \/ \E p \in Procs : StartInsert(p)
    \/ \E p \in Procs, activationId \in ActivationIds :
          AllQuiet /\ FinishRead(p, activationId, "cred")
    \/ \E p \in Procs : FinishInsert(p)
    \/ \E p \in Procs : FinishProject(p)
    \/ \E p \in Procs, userIdHash \in {"", "h1"} :
          AllQuiet /\ HeartbeatRead(p, 1, 1, userIdHash)
    \/ \E p \in Procs : HeartbeatUpdate(p)
    \/ \E p \in Procs : HeartbeatSeen(p)
    \/ \E jti \in Jtis : AllQuiet /\ Revoke(jti)

SpecBeat == Init /\ [][NextBeat]_vars

(***************************************************************************)
(* Properties.                                                             *)
(***************************************************************************)

\* C1: for every coupon, in every reachable state under any interleaving of
\* concurrent redemptions, current_uses <= max_uses.
C1_UsesWithinMax ==
    \A c \in DOMAIN coupons : coupons[c].current_uses <= coupons[c].max_uses

\* C2: of n concurrent redemptions of a coupon with k uses left exactly
\* min(n, k) are answered with a license token, so the redemptions answered
\* with a token never outnumber max_uses.
C2_RedemptionsWithinMax ==
    \A c \in DOMAIN coupons : redeemed[c] <= coupons[c].max_uses

\* C3: a license row of a redemption exists only once the redemption's use has
\* been counted: the licenses minted from a coupon never outnumber its counted
\* uses (in SpecCoupon every license row comes from a redemption of the one
\* coupon code).
C3_LicenseOnlyAfterIncrement ==
    Len(licenses) <= (IF "WEBINAR" \in DOMAIN coupons THEN coupons["WEBINAR"].current_uses
                                                     ELSE 0)

\* C4: for every license, bucket and day with a daily limit L, under any
\* interleaving of concurrent metering requests, the cost recorded for that
\* license, bucket and day never exceeds L.
C4_UsageWithinLimit ==
    \A jti \in DOMAIN licenses, bucket \in Buckets :
        LET dailyLimit == ResolveLimit(licenses[jti].quotas, bucket)
        IN  Truthy(dailyLimit) =>
                \A row \in BagToSet(usage) :
                    SumCost(usage, jti, row.day_key, bucket) <= Val(dailyLimit)

\* C5: with metering requests run one after the other under a daily limit L, a
\* request of cost 1 is denied only when the day's recorded cost of its bucket
\* is exactly L, and then it reports remaining = 0 and appends nothing; every
\* other one is admitted and appends exactly one row.  So L requests are
\* admitted from empty usage and the (L+1)-th is denied with remaining 0.
C5_SequentialQuotaExact ==
    (last.op = "meter" /\ last.status # 403 /\ "dailyLimit" \in DOMAIN last /\ last.cost = 1) =>
        LET used == SumCost(usage, last.jti, DayKey(last.today), last.bucket)
            sameDay == last.wrote = 1 /\ DayKey(last.insertAt) = DayKey(last.today)
            usedBefore == IF sameDay THEN used - 1 ELSE used
        IN  IF usedBefore < last.dailyLimit
            THEN /\ last.status = 200
                 /\ last.allowed
                 /\ last.wrote = 1
                 /\ BagCardinality(usage) = last.rows0 + 1
            ELSE /\ last.status = 429
                 /\ ~last.allowed
                 /\ last.remaining = 0
                 /\ last.wrote = 0
                 /\ BagCardinality(usage) = last.rows0
                 /\ used = last.dailyLimit

\* C5 happens: two requests of cost 1 were admitted under a limit of 2 and the
\* third is denied with remaining 0.
C5_Witness ==
    /\ last.op = "meter" /\ last.status = 429 /\ last.cost = 1
    /\ last.dailyLimit = 2 /\ last.remaining = 0
    /\ BagCardinality(usage) = 2
    /\ \A row \in BagToSet(usage) :
          row.cost = 1 /\ row.jti = last.jti /\ row.bucket = last.bucket

\* C6: in every reachable state the activations of one license are all of one
\* device.
C6_OneDevicePerLicense ==
    \A a, b \in DOMAIN activations :
        activations[a].jti = activations[b].jti
            => activations[a].device_id = activations[b].device_id

\* C7: a Finish that does not succeed is answered Conflict (409) or NotFound
\* (404) and has created no activation; a Finish that succeeds has created the
\* one activation of its activation id.
C7_FinishOnceElseConflict ==
    last.op = "finish" =>
        IF last.status = 200
        THEN last.wrote = 1 /\ last.activationId \in DOMAIN activations
        ELSE last.status \in {404, 409} /\ last.wrote = 0

\* C8: Revoke is all-or-nothing: in no reachable state is a license revoked
\* while an activation of it that was written before the revocation is not
\* revoked, and once Revoke has answered the license is revoked.
C8_RevokeAllOrNothing ==
    /\ \A a \in DOMAIN activations :
          (licenses[activations[a].jti].revoked /\ ~activations[a].revoked)
              => activations[a].licenseRevokedAtInsert
    /\ (last.op = "revoke" /\ last.jti \in DOMAIN licenses) => licenses[last.jti].revoked

\* C8 happens: Revoke has answered for a license with an activation, and both
\* are revoked.
C8_Witness ==
    /\ last.op = "revoke"
    /\ last.jti \in DOMAIN licenses
    /\ licenses[last.jti].revoked
    /\ \E a \in DOMAIN activations :
          /\ activations[a].jti = last.jti
          /\ ~activations[a].licenseRevokedAtInsert
          /\ activations[a].revoked

\* The license of metering request r was absent, revoked or past its expiry
\* when the request checked it.
MeterLicenseBad(r) ==
    /\ r.op = "meter"
    /\ \/ r.rowAtStart = Undef
       \/ Val(r.rowAtStart).revoked
       \/ Val(r.rowAtStart).exp * 1000 < r.at

\* C9: a metering request whose license is absent, revoked or past its expiry
\* when the request checks it goes no further: it is answered 403 and has
\* appended no usage row.
C9_InvalidLicenseRefused ==
    /\ \A p \in Procs : ~MeterLicenseBad(req[p])
    /\ MeterLicenseBad(last) => (last.status = 403 /\ last.wrote = 0)

\* C9 happens: a metering request for a revoked license was answered 403.
C9_Witness ==
    /\ last.op = "meter" /\ last.status = 403
    /\ last.rowAtStart # Undef
    /\ Val(last.rowAtStart).revoked
    /\ last.wrote = 0

\* C10: a heartbeat for an activation of a license that was already revoked
\* when the heartbeat arrived is refused (401 or 403).
C10_HeartbeatRefusedAfterRevoke ==
    (last.op = "heartbeat" /\ last.revokedAtStart /\ last.activationAtStart)
        => last.status \in {401, 403}

\* C11: no activation row is written for a license that is revoked when the
\* row is written: after Start, Revoke, Finish the revoked license has no
\* activation that is not revoked.
C11_NoActivationOfRevokedLicense ==
    \A a \in DOMAIN activations :
        /\ ~activations[a].licenseRevokedAtInsert
        /\ licenses[activations[a].jti].revoked => activations[a].revoked

\* C12: under any interleaving of metering and revoke requests, no usage row
\* is appended for a license that is revoked at the moment of the append.
C12_NoUsageOfRevokedLicense ==
    (last.op = "meter" /\ last.wrote = 1) => ~last.revokedAtInsert

(***************************************************************************)
(* Activation start with license tokens whose signature may not verify     *)
(* against the service key (a token anyone can assemble from a known jti). *)
(***************************************************************************)
\* The payload of a presented license token, together with whether its
\* signature verifies.  The handler decodes the payload only.
PresentedTokens == [aud : {"p1"}, jti : Jtis, exp : {SecondsPerDay}, signed : BOOLEAN]

NextForged ==
    \/ Tick
    \/ \E p \in Procs : IssueBegin(p, "p1", "individual", "", 1, 1, NoQuota)
    \/ \E p \in Procs, token \in PresentedTokens : StartRead(p, "p1", token)
    \/ \E p \in Procs : StartInsert(p)

SpecForged == Init /\ [][NextForged]_vars

\* C13: a request whose token does not pass verification is rejected and
\* writes nothing: no Start presented with a license token whose signature
\* does not verify is answered 200, and no session is created for it.
C13_UnverifiedTokenRejected ==
    /\ \A p \in Procs : req[p].pc = "start_insert" => req[p].token.signed
    /\ (last.op = "start" /\ ~last.token.signed) => last.status # 200

(***************************************************************************)
(* The token codec (a later revision of apps/baas-api/worker.js): signJwt, *)
(* verifyJwt and the developerAuth middleware that calls it.  Text is a    *)
(* sequence of character codes, a buffer a sequence of bytes.              *)
(***************************************************************************)
\* new TextEncoder().encode(text): UTF-8, for code points below 2048.
RECURSIVE Utf8(_)
Utf8(text) ==
    IF text = <<>> THEN <<>>
    ELSE LET c == Head(text)
         IN  (IF c < 128 THEN <<c>> ELSE <<192 + (c \div 64), 128 + (c % 64)>>) \o Utf8(Tail(text))

\* The character of a 6-bit value in the base64 alphabet A-Z a-z 0-9 + /.
Base64Char(v) ==
    IF v < 26 THEN 65 + v
    ELSE IF v < 52 THEN 71 + v
    ELSE IF v < 62 THEN v - 4
    ELSE IF v = 62 THEN 43 ELSE 47

\* btoa(String.fromCharCode(...buf)): base64 with '=' padding.
RECURSIVE Btoa(_)
Btoa(buf) ==
    IF Len(buf) = 0 THEN <<>>
    ELSE IF Len(buf) = 1
    THEN <<Base64Char(buf[1] \div 4), Base64Char((buf[1] % 4) * 16), 61, 61>>
    ELSE IF Len(buf) = 2
    THEN <<Base64Char(buf[1] \div 4), Base64Char((buf[1] % 4) * 16 + (buf[2] \div 16)),
           Base64Char((buf[2] % 16) * 4), 61>>
    ELSE <<Base64Char(buf[1] \div 4), Base64Char((buf[1] % 4) * 16 + (buf[2] \div 16)),
           Base64Char((buf[2] % 16) * 4 + (buf[3] \div 64)), Base64Char(buf[3] % 64)>>
         \o Btoa(SubSeq(buf, 4, Len(buf)))

\* str.replace(/from/g, to) for one character.
ReplaceChar(str, from, to) == [i \in DOMAIN str |-> IF str[i] = from THEN to ELSE str[i]]

IsPadding(c) == c = 61
NotPadding(c) == ~IsPadding(c)

\* btoa(...).replace(/\+/g, '-').replace(/\//g, '_').replace(/=/g, '')
encodeBase64Url(buf) ==
    SelectSeq(ReplaceChar(ReplaceChar(Btoa(buf), 43, 45), 47, 95), NotPadding)

\* The 6-bit value of a character of the base64 alphabet; -1 for any other
\* character ('-' and '_' among them).
Base64Value(c) ==
    IF c >= 65 /\ c <= 90 THEN c - 65
    ELSE IF c >= 97 /\ c <= 122 THEN c - 71
    ELSE IF c >= 48 /\ c <= 57 THEN c + 4
    ELSE IF c = 43 THEN 62
    ELSE IF c = 47 THEN 63
    ELSE 0 - 1

RECURSIVE DecodeGroups(_)
DecodeGroups(vals) ==
    IF Len(vals) < 2 THEN <<>>
    ELSE IF Len(vals) = 2 THEN <<vals[1] * 4 + (vals[2] \div 16)>>
    ELSE IF Len(vals) = 3
    THEN <<vals[1] * 4 + (vals[2] \div 16), (vals[2] % 16) * 16 + (vals[3] \div 4)>>
    ELSE <<vals[1] * 4 + (vals[2] \div 16), (vals[2] % 16) * 16 + (vals[3] \div 4),
           (vals[3] % 4) * 64 + vals[4]>>
         \o DecodeGroups(SubSeq(vals, 5, Len(vals)))

\* atob(str): the forgiving base64 decode.  It throws (ok = FALSE) on a
\* character outside the alphabet and on a length of 1 modulo 4; otherwise the
\* result is the binary string, one character per byte.
Atob(str) ==
    LET n == Len(str)
        padded == n > 0 /\ n % 4 = 0 /\ str[n] = 61
        cut == IF ~padded THEN 0 ELSE IF str[n - 1] = 61 THEN 2 ELSE 1
        s == SubSeq(str, 1, n - cut)
        vals == [i \in DOMAIN s |-> Base64Value(s[i])]
    IN  IF Len(s) % 4 = 1 \/ \E i \in DOMAIN s : vals[i] < 0
        THEN [ok |-> FALSE, text |-> <<>>]
        ELSE [ok |-> TRUE, text |-> DecodeGroups(vals)]

\* JSON.stringify({ alg: 'RS256', typ: 'JWT' }), and the header of a token
\* that names another algorithm, {"alg":"none"}.
HeaderJson ==
    <<123, 34, 97, 108, 103, 34, 58, 34, 82, 83, 50, 53, 54, 34, 44, 34, 116, 121, 112, 34,
      58, 34, 74, 87, 84, 34, 125>>
NoneHeaderJson == <<123, 34, 97, 108, 103, 34, 58, 34, 110, 111, 110, 101, 34, 125>>

\* JSON.parse of a header text: the alg it names; ok = FALSE when it throws.
ParseHeader(text) ==
    IF text = HeaderJson THEN [ok |-> TRUE, alg |-> "RS256"]
    ELSE IF text = NoneHeaderJson THEN [ok |-> TRUE, alg |-> "none"]
    ELSE [ok |-> FALSE, alg |-> ""]

\* The exp claims a payload may carry, in seconds: one second before and one
\* second after the clock's value after a tick.
ExpChoices == <<(TickMs \div 1000) - 1, (TickMs \div 1000) + 1>>

\* A payload is {name, exp}, exp optional.  Its JSON text is abbreviated to
\* the characters of name followed, when exp is present, by the digit that
\* numbers exp in ExpChoices.
Stringify(payload) ==
    payload.name \o
        (IF payload.exp = Undef THEN <<>>
         ELSE <<48 + (CHOOSE i \in DOMAIN ExpChoices : ExpChoices[i] = Val(payload.exp))>>)

\* JSON.parse of a payload text; the empty text is no JSON and throws.
ParsePayload(text) ==
    LET n == Len(text)
        hasExp == n > 0 /\ text[n] - 48 \in DOMAIN ExpChoices
    IN  IF n = 0 THEN [ok |-> FALSE, payload |-> [name |-> <<>>, exp |-> Undef]]
        ELSE IF hasExp
        THEN [ok |-> TRUE, payload |-> [name |-> SubSeq(text, 1, n - 1),
                                        exp |-> Some(ExpChoices[text[n] - 48])]]
        ELSE [ok |-> TRUE, payload |-> [name |-> text, exp |-> Undef]]

\* crypto.subtle.sign / crypto.subtle.verify with the key pair named by key.
Sign(key, data) == [key |-> key, data |-> data]
Verify(key, signature, data) == signature.key = key /\ signature.data = data

\* A token is its three dot-separated parts; signature is Undef when the
\* string has fewer than three parts.  (The signature part is kept as the
\* signature itself: line 117 undoes the '-' and '_' of its encoding.)
signJwt(payload, privateJwk) ==
    LET encodedHeader == encodeBase64Url(Utf8(HeaderJson))
        encodedPayload == encodeBase64Url(Utf8(Stringify(payload)))
    IN  [header |-> encodedHeader, payload |-> encodedPayload,
         signature |-> Some(Sign(privateJwk, <<encodedHeader, encodedPayload>>))]

\* verifyJwt at time t (milliseconds): the payload, or Undef for null.  Every
\* throw inside the try block ends in the catch, which returns null.  An
\* absent exp makes payload.exp * 1000 NaN, and NaN < Date.now() is false.
verifyJwt(token, publicJwk, t) ==
    LET headerText == Atob(token.header)
        payloadText == Atob(token.payload)
        header == ParseHeader(headerText.text)
        parsed == ParsePayload(payloadText.text)
    IN  IF ~headerText.ok \/ ~header.ok THEN Undef
        ELSE IF ~payloadText.ok \/ ~parsed.ok THEN Undef
        ELSE IF header.alg # "RS256" THEN Undef
        ELSE IF parsed.payload.exp # Undef /\ Val(parsed.payload.exp) * 1000 < t THEN Undef
        ELSE IF token.signature = Undef THEN Undef
        ELSE IF ~Verify(publicJwk, Val(token.signature), <<token.header, token.payload>>)
        THEN Undef
        ELSE Some(parsed.payload)

\* The developerAuth middleware in front of GET /api/v1/developer/projects:
\* 401 when verifyJwt returns null, else the payload becomes request.developer
\* and the route answers 200.
DeveloperAuth(p, token) ==
    /\ CanStart(p)
    /\ LET decoded == verifyJwt(token, "service", now)
           r == [op |-> "developerAuth", pc |-> "done", status |-> 200, token |-> token,
                 at |-> now, developer |-> decoded]
       IN  Answer(p, IF decoded = Undef THEN [r EXCEPT !.status = 401] ELSE r)
    /\ UNCHANGED <<tables, now, sdk, redeemed>>

(***************************************************************************)
(* Verification of presented tokens: tokens the service signed, for names  *)
(* of 'A', '?' and 'e with acute accent', and tokens changed afterwards.   *)
(***************************************************************************)
MaxNameLen == 2
CodePoints == {65, 63, 233}
Names == UNION {[1..n -> CodePoints] : n \in 0..MaxNameLen}
Payloads == [name : Names, exp : {Undef} \cup {Some(ExpChoices[i]) : i \in DOMAIN ExpChoices}]
IssuedJwts == {signJwt(payload, "service") : payload \in Payloads}

\* An issued token with one part changed: another header, a header that is
\* no base64, one more character in the payload, no signature, or a signature
\* made with another key.
ChangedJwts ==
    UNION {{[tk EXCEPT !.header = encodeBase64Url(Utf8(NoneHeaderJson))],
            [tk EXCEPT !.header = <<45>>],
            [tk EXCEPT !.payload = Append(@, 65)],
            [tk EXCEPT !.signature = Undef],
            [tk EXCEPT !.signature = Some(Sign("other", <<tk.header, tk.payload>>))]}
           : tk \in IssuedJwts}

NextCodec ==
    \/ Tick
    \/ \E p \in Procs, token \in IssuedJwts \cup ChangedJwts : DeveloperAuth(p, token)

SpecCodec == Init /\ [][NextCodec]_vars

\* The payload of token tk when tk is a token the service signed over a
\* payload with an exp claim that has not passed at time t.
IsValidTokenOf(tk, payload, t) ==
    /\ tk = signJwt(payload, "service")
    /\ payload.exp # Undef
    /\ Val(payload.exp) * 1000 >= t

\* C14: verifyJwt returns a payload only for a token with the RS256 header, a
\* signature of the service over its header and payload, and an exp claim that
\* has not passed; for every other token it returns null (the middleware
\* answers 401) and no exception escapes.
C14_VerifyOnlyValidTokens ==
    last.op = "developerAuth" =>
        /\ last.status \in {200, 401}
        /\ last.developer # Undef =>
              \E payload \in Payloads : IsValidTokenOf(last.token, payload, last.at)

\* C15: for every valid claim set, verifyJwt(signJwt(claims)) returns the
\* claims, and a token with a changed part fails verification.
C15_SignVerifyRoundTrip ==
    last.op = "developerAuth" =>
        /\ \A payload \in Payloads :
              IsValidTokenOf(last.token, payload, last.at) => last.developer = Some(payload)
        /\ last.token \notin IssuedJwts => last.developer = Undef


(***************************************************************************)
(* Start under concurrent requests, with issue, revoke and the clock:      *)
(* tokens for either project, presented for either project, before and     *)
(* after their expiry.                                                     *)
(***************************************************************************)
NextStart ==
    \/ Tick
    \/ \E p \in Procs : IssueBegin(p, "p1", "individual", "", 1, 1, NoQuota)
    \/ \E p \in Procs, projectId \in Projects,
          token \in [aud : Projects, jti : Jtis, exp : {SecondsPerDay}] :
          StartRead(p, projectId, token)
    \/ \E p \in Procs : StartInsert(p)
    \/ \E jti \in Jtis : Revoke(jti)

SpecStart == Init /\ [][NextStart]_vars

\* The request's token is for another project or expired, or its license was
\* absent or revoked, when the handler checked.
StartRefusable(r) ==
    \/ r.token.aud # r.projectId
    \/ r.at > r.token.exp * 1000
    \/ r.rowAtStart = Undef
    \/ Val(r.rowAtStart).revoked

\* C16: Start fails and persists no session when the token's audience is not
\* the requested project, when the token is expired, or when its license is
\* absent or revoked (then with 404): no such request gets to the insert, and
\* its answer is a 400 or a 404 with no session written.
C16_StartRefusesBadToken ==
    /\ \A p \in Procs : req[p].pc = "start_insert" => ~StartRefusable(req[p])
    /\ (last.op = "start" /\ StartRefusable(last)) =>
          /\ last.status \in {400, 404}
          /\ last.wrote = 0
          /\ (last.token.aud = last.projectId /\ ~(last.at > last.token.exp * 1000))
                => last.status = 404

\* An expired token of an existing, unrevoked license, presented for its own
\* project, has been refused.
C16_Witness ==
    /\ last.op = "start"
    /\ last.token.aud = last.projectId
    /\ last.at > last.token.exp * 1000
    /\ last.rowAtStart # Undef
    /\ ~Val(last.rowAtStart).revoked
    /\ last.status = 400
    /\ Len(sessions) > 0

\* C17: Finish with an activation id of which table activation_sessions holds
\* no row is answered 404, creates no activation and issues no certificate:
\* no such request gets past the lookup.
C17_FinishUnknownSessionNotFound ==
    /\ \A p \in Procs :
          req[p].pc \in {"finish_insert", "finish_project"} => req[p].sessionAtStart
    /\ (last.op = "finish" /\ ~last.sessionAtStart) =>
          /\ last.status = 404
          /\ last.wrote = 0
          /\ "activationCert" \notin DOMAIN last

\* C17 happens: while a session of another id exists, a Finish for an id
\* without a session has been answered 404.
C17_Witness ==
    /\ last.op = "finish"
    /\ ~last.sessionAtStart
    /\ last.status = 404
    /\ Len(sessions) > 0

\* C18: a session older than the session TTL is treated as absent: a Finish
\* that found its session more than a day old (the TTL is of minutes; a day is
\* beyond any such TTL) is answered 404 or 410 and creates no activation.
C18_StaleSessionRefused ==
    (/\ last.op = "finish"
     /\ last.sessionAtStart
     /\ last.at - sessions[last.activationId].created_at * 1000 > MsPerDay)
        => last.status \in {404, 410} /\ last.wrote = 0

\* C19: a successful Finish consumes its session: once Finish has answered
\* 200, table activation_sessions (which has no column to mark a row used)
\* holds no row of the request's activation id.
C19_FinishConsumesSession ==
    (last.op = "finish" /\ last.status = 200) => ~SessionFound(last.activationId)

LimitChoices == {Undef, Some(0), Some(1)}

NextLimits ==
    \/ \E p \in Procs, daily \in LimitChoices, general \in LimitChoices :
          /\ AllQuiet
          /\ IssueBegin(p, "p1", "individual", "", 1, 1,
                        Quotas(daily, [b \in Buckets |-> IF b = "general" THEN general
                                                                        ELSE Undef]))
    \/ \E p \in Procs, jti \in Jtis, bucket \in Buckets :
          AllQuiet /\ MeterRead(p, jti, 1, bucket, Undef)
    \/ \E p \in Procs : MeterSum(p)
    \/ \E p \in Procs : MeterInsert(p)

SpecLimits == Init /\ [][NextLimits]_vars

\* C21: for every quota configuration, limits of 0 included, the limit Meter
\* applies to a bucket is the bucket's daily limit if one is configured, else
\* the global daily limit if one is configured, else none.
C21_LimitResolution ==
    (last.op = "meter" /\ last.status # 403) =>
        LET quotas == Val(last.rowAtStart).quotas
            configured == IF quotas.byCategory[last.bucket] # Undef
                          THEN quotas.byCategory[last.bucket]
                          ELSE quotas.daily
        IN  IF configured = Undef
            THEN "dailyLimit" \notin DOMAIN last
            ELSE "dailyLimit" \in DOMAIN last /\ last.dailyLimit = Val(configured)

\* C22: the top-level daily value of a license's quotas is a global limit: for
\* every license and day, the recorded cost of all buckets together does not
\* exceed it.
C22_GlobalDailyLimit ==
    \A jti \in DOMAIN licenses :
        \A dayKey \in {row.day_key : row \in BagToSet(usage)} :
            licenses[jti].quotas.daily # Undef =>
                SumRows(usage, {row \in BagToSet(usage) :
                                  row.jti = jti /\ row.day_key = dayKey})
                    <= Val(licenses[jti].quotas.daily)

\* C23: a redemption fails NotFound (404) when no coupon matches (code,
\* project), Expired when the coupon is past expires_at and Exhausted when
\* current_uses >= max_uses (both 403), on the row as the handler read it; in
\* each case the request writes neither a license nor the use count, and no
\* such request gets past the checks.
C23_RedeemFailures ==
    LET Absent(r) == r.couponAtStart = Undef
        Exhausted(r) == Val(r.couponAtStart).current_uses >= Val(r.couponAtStart).max_uses
        Expired(r) == /\ Val(r.couponAtStart).expires_at # Undef
                      /\ Val(Val(r.couponAtStart).expires_at) * 1000 < r.at
    IN  /\ \A p \in Procs :
              req[p].pc \in {"redeem_insert", "redeem_update"} =>
                  ~Absent(req[p]) /\ ~Exhausted(req[p]) /\ ~Expired(req[p])
        /\ (last.op = "redeem" /\ last.couponCode # "" /\ last.projectId # "") =>
              IF Absent(last)
              THEN last.status = 404 /\ last.error = "NotFound" /\ last.wrote = 0
              ELSE /\ Exhausted(last) \/ Expired(last) =>
                         /\ last.status = 403
                         /\ last.wrote = 0
                         /\ last.error \in {"Exhausted", "Expired"}
                   /\ last.error = "Exhausted" => Exhausted(last)
                   /\ last.error = "Expired" => Expired(last)
                   /\ (Exhausted(last) /\ ~Expired(last)) => last.error = "Exhausted"
                   /\ (Expired(last) /\ ~Exhausted(last)) => last.error = "Expired"

\* C23 happens: a redemption of a used-up coupon has been refused as Exhausted
\* after an earlier redemption succeeded, and the use count is what it was.
C23_Witness ==
    /\ last.op = "redeem"
    /\ last.error = "Exhausted"
    /\ last.status = 403
    /\ coupons[last.couponCode].current_uses = Val(last.couponAtStart).current_uses
    /\ redeemed[last.couponCode] > 0

(***************************************************************************)
(* Heartbeats of an activated device under concurrent requests, with the   *)
(* clock: the license is issued and bound one request at a time, then the  *)
(* device's heartbeats may overlap.                                        *)
(***************************************************************************)
NextPulse ==
    \/ Tick
    \/ \E p \in Procs : AllQuiet /\ IssueBegin(p, "p1", "individual", "", 1, 1, NoQuota)
    \/ \E p \in Procs :
          AllQuiet /\ StartRead(p, "p1", [aud |-> "p1", jti |-> 1, exp |-> SecondsPerDay])
    \/ \E p \in Procs : StartInsert(p)
    \/ \E p \in Procs : AllQuiet /\ FinishRead(p, 1, "cred")
    \/ \E p \in Procs : FinishInsert(p)
    \/ \E p \in Procs : FinishProject(p)
    \/ \E p \in Procs, userIdHash \in {"", "h1"} :
          /\ \A q \in Procs : req[q].op \in {"none", "heartbeat"}
          /\ HeartbeatRead(p, 1, 1, userIdHash)
    \/ \E p \in Procs : HeartbeatUpdate(p)
    \/ \E p \in Procs : HeartbeatSeen(p)

SpecPulse == Init /\ [][NextPulse]_vars

\* C24: sightings have set semantics and Heartbeat is idempotent: no step
\* removes a sighting, a heartbeat whose (license, device, user hash) is
\* already sighted leaves the sightings unchanged, and no step lowers the
\* last_seen of an activation.
C24_HeartbeatMonotone ==
    [][/\ usersSeen \subseteq usersSeen'
       /\ \A p \in Procs :
             (/\ req[p].pc = "heartbeat_seen"
              /\ <<req[p].jti, req[p].deviceId, req[p].userIdHash>> \in usersSeen)
                 => usersSeen' = usersSeen
       /\ \A a \in DOMAIN activations :
             activations'[a].last_seen >= activations[a].last_seen]_vars

(***************************************************************************)
(* Every operation on the store, one request at a time: coupons, issue     *)
(* (one or two seats), revoke, start, finish, meter and heartbeat.         *)
(***************************************************************************)
NextStore ==
    \/ AllQuiet /\ CouponsCreate("WEBINAR", "p1", 1, LimitOne, 1, Undef)
    \/ \E p \in Procs : AllQuiet /\ RedeemRead(p, "WEBINAR", "p1")
    \/ \E p \in Procs : RedeemInsert(p)
    \/ \E p \in Procs : RedeemUpdate(p)
    \/ \E p \in Procs, seats \in {1, 2} :
          AllQuiet /\ IssueBegin(p, "p1", "individual", "", seats, 1, LimitOne)
    \/ \E p \in Procs : IssueLoop(p)
    \/ \E jti \in Jtis : AllQuiet /\ Revoke(jti)
    \/ \E p \in Procs :
          AllQuiet /\ StartRead(p, "p1", [aud |-> "p1", jti |-> 1, exp |-> SecondsPerDay])
    \/ \E p \in Procs : StartInsert(p)
    \/ \E p \in Procs : AllQuiet /\ FinishRead(p, 1, "cred")
    \/ \E p \in Procs : FinishInsert(p)
    \/ \E p \in Procs : FinishProject(p)
    \/ \E p \in Procs, jti \in Jtis : AllQuiet /\ MeterRead(p, jti, 1, "general", Undef)
    \/ \E p \in Procs : MeterSum(p)
    \/ \E p \in Procs : MeterInsert(p)
    \/ \E p \in Procs : AllQuiet /\ HeartbeatRead(p, 1, 1, "h1")
    \/ \E p \in Procs : HeartbeatUpdate(p)
    \/ \E p \in Procs : HeartbeatSeen(p)

SpecStore == Init /\ [][NextStore]_vars

\* C25: once a license row is created no step removes it or changes its id,
\* project, type, quotas or expiry; the only change is revoked going from
\* false to true, never back.
C25_LicenseImmutable ==
    [][\A jti \in DOMAIN licenses :
          /\ jti \in DOMAIN licenses'
          /\ [licenses'[jti] EXCEPT !.revoked = FALSE] = [licenses[jti] EXCEPT !.revoked = FALSE]
          /\ licenses[jti].revoked => licenses'[jti].revoked]_vars

\* C25 happens: Revoke has been answered for a license that has an activation
\* and usage recorded, and the license is revoked.
C25_Witness ==
    /\ last.op = "revoke"
    /\ last.jti \in DOMAIN licenses
    /\ licenses[last.jti].revoked
    /\ \E row \in BagToSet(usage) : row.jti = last.jti
    /\ \E a \in DOMAIN activations : activations[a].jti = last.jti

\* C26: usage rows are append-only: no step of any operation removes or
\* changes a usage row, so every row is there, as often, after the step.
C26_UsageAppendOnly ==
    [][\A row \in BagToSet(usage) :
          /\ row \in BagToSet(usage')
          /\ CopiesIn(row, usage') >= CopiesIn(row, usage)]_vars

\* C26 happens: usage was recorded for two licenses, one of them was revoked,
\* and a heartbeat has been answered since.
C26_Witness ==
    /\ last.op = "heartbeat"
    /\ last.status = 200
    /\ \E jti \in DOMAIN licenses :
          licenses[jti].revoked /\ \E row \in BagToSet(usage) : row.jti = jti
    /\ BagCardinality(usage) >= 2

(***************************************************************************)
(* Issue under concurrent requests, with agencies and revoke: zero, one or *)
(* two seats, of either type, for no agency or for agency "a1", whose seat *)
(* quota is 1.                                                             *)
(***************************************************************************)
NextIssue ==
    \/ AgenciesCreate("a1", 1)
    \/ \E p \in Procs, type \in {"seat", "individual"}, agencyId \in {"", "a1"},
          seats \in {0, 1, 2} :
          IssueBegin(p, "p1", type, agencyId, seats, 1, LimitOne)
    \/ \E p \in Procs : IssueLoop(p)
    \/ \E jti \in Jtis : Revoke(jti)

SpecIssue == Init /\ [][NextIssue]_vars

\* A step of an Issue request: a request of the handler moves or is answered.
IssueStep ==
    \/ last' # last /\ last'.op = "issue"
    \/ \E p \in Procs : req'[p] # req[p] /\ req'[p].op = "issue"

\* C27: Issue with seats = n creates exactly n license rows with pairwise
\* distinct ids, not revoked and with the requested project, type and quotas,
\* returns one token per created license, and leaves sessions, activations,
\* usage and coupons unchanged.  Each step of the handler appends at most one
\* row, not revoked, and touches no other table; a request in its loop has
\* created as many rows as it holds tokens; the answer holds n tokens of n
\* distinct rows that carry the request's values.
C27_IssueCreatesSeats ==
    /\ [](\A p \in Procs :
             req[p].pc = "issue_loop" =>
                 /\ Len(req[p].tokens) = req[p].i
                 /\ req[p].i < req[p].seats)
    /\ []((last.op = "issue" /\ last.status = 201) =>
             /\ Len(last.tokens) = (IF last.seats < 1 THEN 0 ELSE last.seats)
             /\ \A i, j \in DOMAIN last.tokens :
                   i # j => last.tokens[i].jti # last.tokens[j].jti
             /\ \A i \in DOMAIN last.tokens :
                   LET token == last.tokens[i]
                   IN  /\ token.jti \in DOMAIN licenses
                       /\ token.aud = last.projectId
                       /\ licenses[token.jti].project_id = last.projectId
                       /\ licenses[token.jti].type = last.type
                       /\ licenses[token.jti].quotas = last.quotas)
    /\ [][IssueStep =>
             /\ UNCHANGED <<sessions, activations, usage, coupons>>
             /\ \/ licenses' = licenses
                \/ /\ Len(licenses') = Len(licenses) + 1
                   /\ SubSeq(licenses', 1, Len(licenses)) = licenses
                   /\ ~licenses'[Len(licenses')].revoked]_vars

\* C27 happens: an Issue of two seats for the agency has been answered with
\* two tokens while the first of its licenses is already revoked.
C27_Witness ==
    /\ last.op = "issue"
    /\ last.status = 201
    /\ last.seats = 2
    /\ last.type = "seat"
    /\ Len(last.tokens) = 2
    /\ licenses[last.tokens[1].jti].revoked

\* C28: an agency's seat quota is the most licenses that can be issued to it:
\* in every reachable state the seat licenses of an agency are no more than
\* its seat_quota.
C28_SeatsWithinQuota ==
    \A agencyId \in DOMAIN agencies :
        Cardinality({jti \in DOMAIN licenses :
                        licenses[jti].type = "seat" /\ licenses[jti].agency_id = agencyId})
            <= agencies[agencyId].seat_quota

(***************************************************************************)
(* The public list of revoked licenses, with licenses of two projects,     *)
(* issue, revoke and the clock.                                            *)
(***************************************************************************)
NextRevocations ==
    \/ Tick
    \/ \E p \in Procs, projectId \in Projects :
          IssueBegin(p, projectId, "individual", "", 1, 1, NoQuota)
    \/ \E jti \in Jtis : Revoke(jti)
    \/ \E p \in Procs, projectId \in Projects \cup {""} : Revocations(p, projectId)

SpecRevocations == Init /\ [][NextRevocations]_vars

\* C29: the list of revoked ids of a project is exactly the ids of the
\* project's licenses whose revoked flag is set, listing changes no table, and
\* a license whose Revoke has been answered is in every later list of its
\* project: a step that answers a list answers the revoked licenses of the
\* project as they are, every license revoked before the step included, and
\* the ids of an answered list stay revoked licenses of the project.
C29_ListRevokedIds ==
    /\ []((last.op = "revocations" /\ last.status = 200) =>
             \A jti \in last.revoked :
                 /\ jti \in DOMAIN licenses
                 /\ licenses[jti].project_id = last.projectId
                 /\ licenses[jti].revoked)
    /\ [][(last' # last /\ last'.op = "revocations") =>
             /\ UNCHANGED tables
             /\ last'.status = 200 =>
                   \A jti \in DOMAIN licenses :
                       jti \in last'.revoked <=>
                           (licenses[jti].project_id = last'.projectId /\ licenses[jti].revoked)]_vars

\* C29 happens: with a revoked license in each of two projects, the list of
\* one project has been answered with its one id.
C29_Witness ==
    /\ last.op = "revocations"
    /\ last.status = 200
    /\ Cardinality(last.revoked) = 1
    /\ \E jti \in DOMAIN licenses :
          licenses[jti].revoked /\ licenses[jti].project_id # last.projectId

(***************************************************************************)
(* The SDK: BAAS.quota.wrap around a function fn, and quota.meter.         *)
(***************************************************************************)
\* A faulty variant of ResponseOk that takes every response as ok, to test
\* the properties against.
ResponseOkAlways(status) == TRUE

\* res.ok: the status is in the range 200-299.
ResponseOk(status) == status \in 200..299

\* The wrapped function is called: quota.meter runs first.  Without an
\* activation it throws before fetch is called and the call ends; else it
\* sends the meter request (the certificate names license jti, device 1) and
\* waits for the response.
WrapCall(p, activated, jti, bucket, cost) ==
    IF ~activated
    THEN /\ CanStart(p)
         /\ Answer(p, [op |-> "wrap", pc |-> "done", status |-> 0, activated |-> FALSE,
                       sent |-> FALSE, called |-> FALSE, thrown |-> "SDK not activated"])
         /\ UNCHANGED <<tables, now, sdk, redeemed>>
    ELSE MeterRead(p, jti, 1, bucket, Some(cost))

\* The response of the meter request arrives: when it is not ok, quota.meter
\* throws {limit: <the response's body>} and the wrapper ends without calling
\* fn; else the wrapper calls fn.
WrapResume ==
    /\ last.op = "meter"
    /\ LET r == [op |-> "wrap", pc |-> "done", status |-> last.status, activated |-> TRUE,
                 sent |-> TRUE, called |-> ResponseOk(last.status),
                 thrown |-> IF ResponseOk(last.status) THEN "" ELSE "limit",
                 wrote |-> last.wrote]
           errorData == IF last.status = 429
                        THEN [allowed |-> FALSE, bucket |-> last.bucket,
                              remaining |-> last.remaining]
                        ELSE [error |-> "Invalid or expired license."]
       IN  last' = IF ResponseOk(last.status) THEN r ELSE r @@ [limit |-> errorData]
    /\ UNCHANGED <<tables, now, sdk, req, redeemed>>

\* Calls of a wrapped function one at a time, activated or not, for an issued
\* or an unknown license with a daily limit of 1, with revoke and the clock.
NextWrap ==
    \/ Tick
    \/ \E p \in Procs :
          AllQuiet /\ last.op # "meter" /\ IssueBegin(p, "p1", "individual", "", 1, 1, LimitOne)
    \/ AllQuiet /\ last.op # "meter" /\ Revoke(1)
    \/ \E p \in Procs, activated \in BOOLEAN, jti \in Jtis :
          AllQuiet /\ last.op # "meter" /\ WrapCall(p, activated, jti, "general", 1)
    \/ \E p \in Procs : MeterSum(p)
    \/ \E p \in Procs : MeterInsert(p)
    \/ WrapResume

SpecWrap == Init /\ [][NextWrap]_vars

\* C30: the wrapped function runs only after the call's meter request has been
\* admitted: when fn was called, the request was sent and answered 200 with its
\* usage row written; when the response is 429 the wrapper throws the limit
\* information and fn is not called; without an activation the wrapper throws
\* before a request is sent, and fn is not called.
C30_WrapRunsOnlyWhenAdmitted ==
    /\ [](last.op = "wrap" =>
             /\ last.called => (last.sent /\ last.status = 200 /\ last.wrote = 1)
             /\ (last.sent /\ last.status # 200) => (~last.called /\ last.thrown = "limit")
             /\ last.status = 429 =>
                   (~last.limit.allowed /\ last.limit.remaining >= 0)
             /\ ~last.activated =>
                   (~last.sent /\ ~last.called /\ last.thrown = "SDK not activated"))
    /\ [][(last' # last /\ last'.op = "wrap" /\ ~last'.activated) =>
             (req' = req /\ UNCHANGED tables)]_vars

\* C30 happens: after an admitted call, a call over the limit has thrown the
\* limit information, remaining 0, without calling fn.
C30_Witness ==
    /\ last.op = "wrap"
    /\ last.status = 429
    /\ ~last.called
    /\ last.limit.remaining = 0
    /\ BagCardinality(usage) > 0

\* C31: a successful Finish mints a fresh device id, persists one activation
\* linking the session's license to it, and returns a certificate with that
\* license id and device id, the level and an expiry 7 days ahead: the
\* certificate of an answered Finish names the session's license, expires 7
\* days after a moment of the request, and exactly one activation row, the one
\* of the request's activation id, has its license id and device id.
C31_CertificateMatchesActivation ==
    (last.op = "finish" /\ last.status = 200) =>
        LET cert == last.activationCert
            lifetime == 7 * 24 * 60 * 60
        IN  /\ cert.typ = "activation"
            /\ cert.level = "webauthn"
            /\ cert.jti = sessions[last.activationId].jti
            /\ cert.exp >= (last.at \div 1000) + lifetime
            /\ cert.exp <= (now \div 1000) + lifetime
            /\ last.activationId \in DOMAIN activations
            /\ \A a \in DOMAIN activations :
                  (activations[a].jti = cert.jti /\ activations[a].device_id = cert.deviceId)
                      <=> a = last.activationId
            /\ \A a \in DOMAIN activations :
                  activations[a].device_id = cert.deviceId => a = last.activationId

\* C31 happens: a Finish that arrived after the clock had moved has been
\* answered with a certificate.
C31_Witness ==
    /\ last.op = "finish"
    /\ last.status = 200
    /\ last.at > 0
    /\ last.activationCert.deviceId = activations[last.activationId].device_id

\* C32: a successful Start persists exactly one new session, keyed by a fresh
\* id and carrying the license id and the challenge returned to the client,
\* and creates or changes no activation, license, usage or coupon row; a step
\* of Start that does not answer 200 writes nothing.
C32_StartPersistsOneSession ==
    [][/\ (last' # last /\ last'.op = "start") =>
             /\ UNCHANGED <<activations, licenses, usage, coupons>>
             /\ IF last'.status = 200
                THEN /\ Len(sessions') = Len(sessions) + 1
                     /\ SubSeq(sessions', 1, Len(sessions)) = sessions
                     /\ last'.activationId = Len(sessions')
                     /\ sessions'[last'.activationId].jti = last'.token.jti
                     /\ sessions'[last'.activationId].challenge = last'.challenge
                ELSE sessions' = sessions
       /\ (\E p \in Procs : req'[p] # req[p] /\ req'[p].op = "start") =>
             UNCHANGED tables]_vars

\* C32 happens: while an activation exists, a second Start has been answered
\* with a second session.
C32_Witness ==
    /\ last.op = "start"
    /\ last.status = 200
    /\ last.activationId = 2
    /\ Len(sessions) = 2
    /\ sessions[2].challenge = last.challenge
    /\ DOMAIN activations # {}

(***************************************************************************)
(* The SDK (sdk/baas-sdk.js): license.ensure, activate, startHeartbeat.    *)
(* A step is the code one call runs between two awaits.  A fetch that is   *)
(* awaited is put in the outbox; Transmit hands the requests to the worker *)
(* one at a time, and the response is in last when the call resumes.  The  *)
(* heartbeats, which the SDK sends without reading the response, are kept  *)
(* in beats; the worker's handling of a heartbeat is HeartbeatRead.        *)
(***************************************************************************)
\* The tokens onRequestLicense may return: the token Issue signed for a
\* license of the table, or the same text with a signature that does not
\* verify.  (These payloads are ASCII, so atob returns their JSON text.)
SdkTokens ==
    {[payload |-> [aud |-> licenses[j].project_id, jti |-> j, exp |-> licenses[j].exp],
      signed |-> b] : j \in DOMAIN licenses, b \in BOOLEAN}

\* payload.aud: undefined when the payload has no such member.
Aud(payload) == IF "aud" \in DOMAIN payload THEN payload.aud ELSE "undefined"

\* verifyJwt of the SDK, up to its first await: the payload, or null when the
\* token has expired, when payload.aud !== config.projectId, or when the
\* signature does not verify.
SdkVerifyJwt(token, projectId, t) ==
    IF token.payload.exp * 1000 < t THEN Undef
    ELSE IF Aud(token.payload) # projectId THEN Undef
    ELSE IF ~token.signed THEN Undef
    ELSE Some(token.payload)

\* updateStatus(): config.onStatus is called with the status of the moment.
UpdateStatus(s) ==
    [s EXCEPT !.status = Some([valid |-> (s.license # Undef /\ s.activation # Undef),
                               projectId |-> s.projectId,
                               license |-> IF s.license = Undef THEN Undef
                                           ELSE Some(Val(s.license).jti),
                               activation |-> IF s.activation = Undef THEN Undef
                                              ELSE Some(Val(s.activation).deviceId)])]

\* fetch(url, {body}): the request leaves when Transmit takes it.
Fetch(s, e, to, body) ==
    [s EXCEPT !.outbox = @ \cup {[call |-> e, to |-> to, body |-> body]}]

\* if (state.heartbeatTimer) clearInterval(state.heartbeatTimer)
ClearInterval(timers, timer) == IF timer = Undef THEN timers ELSE timers \ {Val(timer)}

\* beat(): without an activation nothing; else (userProvider returns null)
\* the heartbeat is sent, its response is not awaited, and the status updated.
Beat(s) ==
    IF s.activation = Undef THEN s
    ELSE UpdateStatus([s EXCEPT !.beats = @ \cup {Val(s.activation).activationCert}])

\* startHeartbeat(): clear the timer of state, beat at once, set a new timer.
StartHeartbeat(s) ==
    LET timer == s.minted + 1
        cleared == [s EXCEPT !.timers = ClearInterval(s.timers, s.heartbeatTimer)]
    IN  [Beat(cleared) EXCEPT !.timers = @ \cup {timer}, !.heartbeatTimer = Some(timer),
                              !.minted = timer]

\* The end of ensure: startHeartbeat(); updateStatus();
EnsureHeartbeat(s, e) ==
    [UpdateStatus(StartHeartbeat(s)) EXCEPT !.calls[e].pc = "returned",
                                            !.calls[e].started = TRUE,
                                            !.calls[e].reported = TRUE]

\* if (!state.activation) activate(storage.get('license').token): the start
\* request is built and sent; reading .token of null throws out of ensure.
EnsureActivation(s, e) ==
    LET stored == s.storage[s.projectId].license
    IN  IF s.activation # Undef THEN EnsureHeartbeat(s, e)
        ELSE IF stored = Undef THEN [s EXCEPT !.calls[e].pc = "thrown"]
        ELSE [Fetch(s, e, "start", [projectId |-> s.projectId, licenseToken |-> Val(stored)])
                 EXCEPT !.calls[e].pc = "start_wait"]

\* if (!state.license) await config.onRequestLicense()
EnsureLicense(s, e) ==
    IF s.license = Undef THEN [s EXCEPT !.calls[e].pc = "token"] ELSE EnsureActivation(s, e)

\* The steps of the SDK leave the worker alone.
SdkStep == UNCHANGED <<tables, now, req, last, redeemed>>

\* BAAS.license.ensure(opts): Object.assign(config, opts), where opts names a
\* projectId or ("none") does not; then onRequestLicense is awaited.
EnsureCall(e, projectId) ==
    /\ sdk.calls[e].pc = "none"
    /\ \A d \in Calls : d < e => sdk.calls[d].pc # "none"
    /\ sdk' = [sdk EXCEPT !.projectId = IF projectId = "none" THEN @ ELSE projectId,
                          !.calls[e] = [pc |-> "probe_token", opts |-> projectId,
                                        token |-> Undef, result |-> Undef, at |-> 0,
                                        cert |-> Undef, success |-> FALSE,
                                        reported |-> FALSE, started |-> FALSE]]
    /\ SdkStep

\* onRequestLicense has returned a token: verifyJwt(token) runs to its await.
\* (at is history: the clock then.)
EnsureProbe(e, token) ==
    /\ sdk.calls[e].pc = "probe_token"
    /\ sdk' = [sdk EXCEPT !.calls[e].pc = "probe_verified",
                          !.calls[e].token = Some(token),
                          !.calls[e].at = now,
                          !.calls[e].result = SdkVerifyJwt(token, sdk.projectId, now)]
    /\ SdkStep

\* config.projectId = (...)?.aud; return if it is not set; else read the
\* activation and the license of localStorage and, if a license is stored,
\* verify it.
EnsureStored(e) ==
    /\ sdk.calls[e].pc = "probe_verified"
    /\ LET c == sdk.calls[e]
           aud == IF c.result = Undef THEN "undefined" ELSE Aud(Val(c.result))
           s1 == [sdk EXCEPT !.projectId = aud]
           s2 == [s1 EXCEPT !.activation = s1.storage[aud].activation]
           stored == s1.storage[aud].license
       IN  sdk' = IF aud = "undefined" THEN [s1 EXCEPT !.calls[e].pc = "returned"]
                  ELSE IF stored # Undef
                  THEN [s2 EXCEPT !.calls[e].pc = "stored_verified",
                                  !.calls[e].result = SdkVerifyJwt(Val(stored), aud, now)]
                  ELSE EnsureLicense(s2, e)
    /\ SdkStep

\* state.license = await verifyJwt(storedLicense.token)
EnsureStoredVerified(e) ==
    /\ sdk.calls[e].pc = "stored_verified"
    /\ sdk' = EnsureLicense([sdk EXCEPT !.license = sdk.calls[e].result], e)
    /\ SdkStep

\* const token = await config.onRequestLicense(); verifyJwt(token) runs to its
\* await.
EnsureToken(e, token) ==
    /\ sdk.calls[e].pc = "token"
    /\ sdk' = [sdk EXCEPT !.calls[e].pc = "token_verified",
                          !.calls[e].token = Some(token),
                          !.calls[e].result = SdkVerifyJwt(token, sdk.projectId, now)]
    /\ SdkStep

\* state.license = await verifyJwt(token); store it, or update the status and
\* return.
EnsureTokenVerified(e) ==
    /\ sdk.calls[e].pc = "token_verified"
    /\ LET c == sdk.calls[e]
           s1 == [sdk EXCEPT !.license = c.result]
           s2 == [s1 EXCEPT !.storage[s1.projectId].license = c.token]
       IN  sdk' = IF c.result # Undef THEN EnsureActivation(s2, e)
                  ELSE [UpdateStatus(s1) EXCEPT !.calls[e].pc = "returned",
                                                !.calls[e].reported = TRUE]
    /\ SdkStep

\* The network takes a request of the outbox to the worker, one at a time;
\* waiting is the call, if any, that awaits the response.
Transmit(m) ==
    /\ m \in sdk.outbox
    /\ AllQuiet
    /\ last.op # "fetch"
    /\ sdk.waiting = 0
    /\ sdk' = [sdk EXCEPT !.outbox = @ \ {m}, !.waiting = m.call]
    /\ last' = [op |-> "fetch", pc |-> "sent", to |-> m.to, body |-> m.body]
    /\ UNCHANGED <<tables, now, req, redeemed>>

\* activate: the response of /v1/activate/start.  Not ok: the throw is caught
\* and activate returns false; else the credential is created and the finish
\* request sent.
ActivateStarted(e) ==
    /\ sdk.calls[e].pc = "start_wait"
    /\ sdk.waiting = e
    /\ last.op = "start"
    /\ LET s1 == [sdk EXCEPT !.waiting = 0]
       IN  sdk' = IF ~ResponseOk(last.status)
                  THEN [s1 EXCEPT !.calls[e].pc = "activated"]
                  ELSE [Fetch(s1, e, "finish", [activationId |-> last.activationId])
                           EXCEPT !.calls[e].pc = "finish_wait"]
    /\ SdkStep

\* activate: the response of /v1/activate/finish.  Not ok: activate returns
\* false; else verifyJwt(activationCert) runs to its await.
ActivateFinished(e) ==
    /\ sdk.calls[e].pc = "finish_wait"
    /\ sdk.waiting = e
    /\ last.op = "finish"
    /\ LET s1 == [sdk EXCEPT !.waiting = 0]
           cert == [payload |-> last.activationCert, signed |-> TRUE]
       IN  sdk' = IF ~ResponseOk(last.status)
                  THEN [s1 EXCEPT !.calls[e].pc = "activated"]
                  ELSE [s1 EXCEPT !.calls[e].pc = "cert_verified",
                                  !.calls[e].cert = Some(cert),
                                  !.calls[e].result = SdkVerifyJwt(cert, sdk.projectId, now)]
    /\ SdkStep

\* state.activation = {deviceId: decodedCert.deviceId, ...}, stored, and
\* activate returns true; reading .deviceId of null throws, the throw is
\* caught and activate returns false.
ActivateCert(e) ==
    /\ sdk.calls[e].pc = "cert_verified"
    /\ LET c == sdk.calls[e]
           activation == Some([deviceId |-> Val(c.result).deviceId,
                               activationCert |-> Val(c.cert), level |-> "webauthn"])
       IN  sdk' = IF c.result = Undef
                  THEN [sdk EXCEPT !.calls[e].pc = "activated"]
                  ELSE [sdk EXCEPT !.activation = activation,
                                   !.storage[sdk.projectId].activation = activation,
                                   !.calls[e].pc = "activated",
                                   !.calls[e].success = TRUE]
    /\ SdkStep

\* const success = await activate(...): update the status and return, or
\* start the heartbeat.
EnsureActivated(e) ==
    /\ sdk.calls[e].pc = "activated"
    /\ sdk' = IF ~sdk.calls[e].success
              THEN [UpdateStatus(sdk) EXCEPT !.calls[e].pc = "returned",
                                             !.calls[e].reported = TRUE]
              ELSE EnsureHeartbeat(sdk, e)
    /\ SdkStep

\* An interval of 60000 ms has passed for a timer that is set: beat().
IntervalBeat(timer) ==
    /\ timer \in sdk.timers
    /\ sdk' = Beat(sdk)
    /\ SdkStep

\* The worker receives the request the network carries.
Receive(p) ==
    /\ last.op = "fetch"
    /\ IF last.to = "start"
       THEN StartRead(p, last.body.projectId, last.body.licenseToken.payload)
       ELSE FinishRead(p, last.body.activationId, "credential")

\* The worker is not handling a request of the SDK.
WorkerQuiet == AllQuiet /\ last.op # "fetch"

\* One page with the SDK and the worker: a license of project p1 that lasts a
\* day is issued, then ensure is called with and without a projectId; a token
\* fails to verify by its signature, the clock staying within the day.  The
\* steps of the SDK, which do not read the tables, are taken while the worker
\* is quiet: they commute with the worker's steps.
NextSdk ==
    \/ \E p \in Procs :
          /\ licenses = <<>> /\ sdk.calls[1].pc = "none"
          /\ IssueBegin(p, "p1", "individual", "", 1, 1, NoQuota)
    \/ \E e \in Calls, projectId \in {"none", "p1"} : WorkerQuiet /\ EnsureCall(e, projectId)
    \/ \E e \in Calls, token \in SdkTokens : WorkerQuiet /\ EnsureProbe(e, token)
    \/ \E e \in Calls : WorkerQuiet /\ EnsureStored(e)
    \/ \E e \in Calls : WorkerQuiet /\ EnsureStoredVerified(e)
    \/ \E e \in Calls, token \in SdkTokens : WorkerQuiet /\ EnsureToken(e, token)
    \/ \E e \in Calls : WorkerQuiet /\ EnsureTokenVerified(e)
    \/ \E m \in sdk.outbox : Transmit(m)
    \/ \E p \in Procs : Receive(p)
    \/ \E p \in Procs : StartInsert(p)
    \/ \E p \in Procs : FinishInsert(p)
    \/ \E p \in Procs : FinishProject(p)
    \/ \E e \in Calls : WorkerQuiet /\ ActivateStarted(e)
    \/ \E e \in Calls : WorkerQuiet /\ ActivateFinished(e)
    \/ \E e \in Calls : WorkerQuiet /\ ActivateCert(e)
    \/ \E e \in Calls : WorkerQuiet /\ EnsureActivated(e)
    \/ \E timer \in sdk.timers : WorkerQuiet /\ IntervalBeat(timer)

SpecSdk == Init /\ [][NextSdk]_vars

\* C33: ensure called as documented, with opts that name no projectId, whose
\* onRequestLicense returns a signed, unexpired license token, sets
\* config.projectId to the token's audience and goes on to the license and
\* the activation; it does not return early.
C33_EnsureFindsProjectId ==
    [][\A e \in Calls :
          (/\ sdk.calls[e].pc = "probe_verified"
           /\ sdk'.calls[e].pc # "probe_verified"
           /\ sdk.calls[e].opts = "none"
           /\ Val(sdk.calls[e].token).signed
           /\ ~TokenExpired(Val(sdk.calls[e].token).payload.exp, sdk.calls[e].at))
          => /\ sdk'.projectId = Val(sdk.calls[e].token).payload.aud
             /\ sdk'.calls[e].pc # "returned"]_vars

\* C34: when Start and Finish both answered ok and the certificate is the one
\* Finish signed, activate returns true and state.activation holds the
\* certificate's deviceId; and every status the SDK reports has valid = true
\* exactly when state.license and state.activation are both set.
C34_ActivateStoresCertificate ==
    /\ [][\A e \in Calls :
             (/\ sdk.calls[e].pc = "cert_verified"
              /\ sdk'.calls[e].pc = "activated")
             => /\ sdk'.calls[e].success
                /\ sdk'.activation # Undef
                /\ Val(sdk'.activation).deviceId = Val(sdk.calls[e].cert).payload.deviceId]_vars
    /\ [][sdk'.status # sdk.status =>
             Val(sdk'.status).valid = (sdk'.license # Undef /\ sdk'.activation # Undef)]_vars

\* C35: at most one heartbeat interval timer is set at any time; a timer is
\* set only in a state where state.license and state.activation are both set;
\* and an ensure that ends because the new license token did not verify or
\* because activate returned false has updated the status and has started no
\* heartbeat.
C35_OneHeartbeatTimer ==
    /\ [](Cardinality(sdk.timers) <= 1)
    /\ [][~(sdk'.timers \subseteq sdk.timers) =>
             (sdk'.license # Undef /\ sdk'.activation # Undef)]_vars
    /\ [][\A e \in Calls :
             (/\ sdk.calls[e].pc \in {"token_verified", "activated"}
              /\ sdk'.calls[e].pc = "returned"
              /\ (sdk.calls[e].pc = "token_verified" => sdk.calls[e].result = Undef)
              /\ (sdk.calls[e].pc = "activated" => ~sdk.calls[e].success))
             => /\ sdk'.calls[e].reported
                /\ ~sdk'.calls[e].started
                /\ sdk'.timers = sdk.timers
                /\ sdk'.beats = sdk.beats]_vars

\* C36: an admitted Meter call has stored a usage row whose keys are those of
\* one instant, dayKey = floor(ms / 86400000) and minuteKey = floor(ms / 60000),
\* and, when a limit was checked, whose dayKey is the dayKey of the window that
\* was summed, also when the clock passed midnight during the call.
C36_StoredDayIsCheckedDay ==
    (last.op = "meter" /\ last.status = 200) =>
        /\ \E row \in BagToSet(usage) :
              /\ row.jti = last.jti
              /\ row.bucket = last.bucket
              /\ row.day_key = last.insertAt \div 86400000
              /\ row.minute_key = last.insertAt \div 60000
        /\ "today" \in DOMAIN last =>
              \A row \in BagToSet(usage) :
                 (row.jti = last.jti /\ row.bucket = last.bucket
                  /\ row.minute_key = MinuteKey(last.insertAt))
                 => row.day_key = DayKey(last.today)

(***************************************************************************)
(* Metering with the costs a client may send: one license with a daily     *)
(* limit of 1, one request at a time, within one day.                      *)
(***************************************************************************)
\* The values of cost in the request's JSON: the handler takes any.
Costs == {-1, 0, 1}

NextCost ==
    \/ \E p \in Procs : AllQuiet /\ IssueBegin(p, "p1", "individual", "", 1, 1, LimitOne)
    \/ \E p \in Procs, bucket \in Buckets, cost \in Costs :
          AllQuiet /\ MeterRead(p, 1, 1, bucket, Some(cost))
    \/ \E p \in Procs : MeterSum(p)
    \/ \E p \in Procs : MeterInsert(p)

SpecCost == Init /\ [][NextCost]_vars

\* C37: whatever costs the clients send, zero and negative ones included, the
\* cumulative cost of a (license, bucket, dayKey) window never decreases from
\* one state to the next (so that a cost denied once in a window is not
\* admitted in it later).
C37_WindowCostNeverDecreases ==
    [][\A jti \in Jtis, bucket \in Buckets :
          SumCost(usage', jti, DayKey(now), bucket) >= SumCost(usage, jti, DayKey(now), bucket)]_vars

\* The licenses a redemption of coupon c has minted: the handler inserts them
\* with type 'individual' and the coupon's project.
LicensesOfCoupon(c) ==
    {j \in DOMAIN licenses : /\ licenses[j].type = "individual"
                             /\ licenses[j].project_id = coupons[c].project_id}

\* C38: whenever no RedeemCoupon is in progress, the current_uses of every
\* coupon is the number of licenses that redemptions of the coupon have minted.
C38_UsesCountMintedLicenses ==
    (\A p \in Procs : req[p].op # "redeem") =>
        \A c \in DOMAIN coupons :
           /\ coupons[c].current_uses = Cardinality(LicensesOfCoupon(c))
           /\ coupons[c].current_uses = redeemed[c]

\* C38 happens: two redemptions of the coupon have ended, none is in progress.
C38_Witness ==
    /\ \A p \in Procs : req[p].op # "redeem"
    /\ "WEBINAR" \in DOMAIN coupons
    /\ coupons["WEBINAR"].current_uses = 2
    /\ Len(licenses) = 2
    /\ last.op = "redeem" /\ last.status = 200

(***************************************************************************)
(* Two licenses, each with a global limit of 2 and a limit of 1 on bucket  *)
(* "ai"; license 1 is activated on two devices, which then send meter      *)
(* calls and heartbeats with a user, with their own and with other         *)
(* certificates, one request at a time.                                    *)
(***************************************************************************)
\* The SDK sends meter calls and heartbeats once it holds a certificate.
Activated == Cardinality(DOMAIN activations) >= 2

NextKeys ==
    \/ AllQuiet /\ Activated /\ Tick
    \/ \E p \in Procs : AllQuiet /\ IssueBegin(p, "p1", "individual", "", 2, 7, LimitTwoAiOne)
    \/ \E p \in Procs : IssueLoop(p)
    \/ \E p \in Procs :
          /\ AllQuiet /\ ~Activated
          /\ StartRead(p, "p1", [aud |-> "p1", jti |-> 1, exp |-> 7 * SecondsPerDay])
    \/ \E p \in Procs : StartInsert(p)
    \/ \E p \in Procs, activationId \in ActivationIds :
          AllQuiet /\ ~Activated /\ FinishRead(p, activationId, "cred")
    \/ \E p \in Procs : FinishInsert(p)
    \/ \E p \in Procs : FinishProject(p)
    \/ \E p \in Procs, jti \in Jtis, bucket \in Buckets :
          AllQuiet /\ Activated /\ MeterRead(p, jti, 1, bucket, Undef)
    \/ \E p \in Procs : MeterSum(p)
    \/ \E p \in Procs : MeterInsert(p)
    \/ \E p \in Procs, jti \in Jtis :
          AllQuiet /\ Activated /\ HeartbeatRead(p, jti, 1, "h1")
    \/ \E p \in Procs : HeartbeatUpdate(p)
    \/ \E p \in Procs : HeartbeatSeen(p)

SpecKeys == Init /\ [][NextKeys]_vars

\* The admission decision of Meter for a call of license jti, bucket and cost
\* at time t, over the usage rows: admitted without a limit, or when the sum
\* of the window with the cost does not pass the limit.
WouldAdmit(rows, jti, bucket, cost, t) ==
    LET dailyLimit == ResolveLimit(licenses[jti].quotas, bucket)
    IN  Truthy(dailyLimit) =>
           ~OverLimit(SumCost(rows, jti, DayKey(t), bucket), cost, Val(dailyLimit))

\* C39: a step of a Meter call for license A and bucket b changes no usage row
\* of another license or bucket, and no admission decision of another license
\* or of another bucket of A that has a limit of its own, and nothing outside
\* table usage; a step of a Heartbeat changes at most last_seen of the
\* activations of the certificate's (license, device) and adds at most
\* sightings of that pair.
C39_IsolatedPerKey ==
    [][\A p \in Procs :
          LET r == req[p]
          IN  /\ (r.op = "meter" /\ req'[p] # r) =>
                    /\ UNCHANGED <<licenses, sessions, activations, usersSeen, coupons, agencies>>
                    /\ \A row \in BagToSet(usage) \cup BagToSet(usage') :
                          (row.jti # r.jti \/ row.bucket # r.bucket) =>
                             CopiesIn(row, usage') = CopiesIn(row, usage)
                    /\ \A jti \in DOMAIN licenses, bucket \in Buckets, cost \in 1..2,
                          t \in {0, TickMs} :
                          (\/ jti # r.jti
                           \/ (bucket # r.bucket /\ Truthy(licenses[jti].quotas.byCategory[bucket])))
                          => (WouldAdmit(usage', jti, bucket, cost, t)
                                 <=> WouldAdmit(usage, jti, bucket, cost, t))
              /\ (r.op = "heartbeat" /\ req'[p] # r) =>
                    /\ UNCHANGED <<licenses, sessions, usage, coupons, agencies>>
                    /\ DOMAIN activations' = DOMAIN activations
                    /\ \A a \in DOMAIN activations :
                          IF activations[a].jti = r.jti /\ activations[a].device_id = r.deviceId
                          THEN activations'[a] =
                                  [activations[a] EXCEPT !.last_seen = activations'[a].last_seen]
                          ELSE activations'[a] = activations[a]
                    /\ usersSeen \subseteq usersSeen'
                    /\ \A s \in usersSeen' \ usersSeen : s[1] = r.jti /\ s[2] = r.deviceId]_vars

\* C39 happens: with usage rows of two keys and two activations of one
\* license, a heartbeat with a user has been answered and has moved last_seen
\* of one activation only.
C39_Witness ==
    /\ last.op = "heartbeat" /\ last.status = 200 /\ last.userIdHash # ""
    /\ \E a, b \in DOMAIN activations :
          /\ activations[a].jti = activations[b].jti
          /\ activations[a].last_seen # activations[b].last_seen
    /\ \E row1, row2 \in BagToSet(usage) : row1.jti # row2.jti \/ row1.bucket # row2.bucket
    /\ usersSeen # {}

====
